---- MODULE Spec2Model ----
(***************************************************************************)
(* A model of flim/models/lcn/_creator.py: the LCNCreator network builder  *)
(* (skip discovery, patch extraction, kernel synthesis, pooling shape      *)
(* bookkeeping, filter pruning, the module walk and the resume path).      *)
(*                                                                         *)
(* Python dicts are modelled as TLA+ records/functions, so that a test     *)
(* such as  "inputs" in layer_config  reads  "inputs" \in DOMAIN cfg.  A   *)
(* dict that is iterated (the architecture, a module's `layers`) is a      *)
(* sequence of [key, cfg] items in insertion order.                        *)
(***************************************************************************)
EXTENDS Integers, Sequences, FiniteSets, TLC

VARIABLES
    pc,               \* position of the operation under study
    architecture,     \* LCNCreator._architecture
    skips,            \* LCNCreator._skips
    to_save_outputs,  \* LCNCreator._to_save_outputs (the keys of the dict)
    _outputs,         \* LCNCreator._outputs
    _input_shape,     \* LCNCreator._input_shape
    _output_shape,    \* LCNCreator._output_shape
    LCN,              \* the modules added to LCNCreator.LCN, in order
    stack,            \* the active calls of _build_module, innermost last
    call,             \* arguments and locals of the function under study, at its entry
    ret               \* its locals and result at its exit

vars == <<pc, architecture, skips, to_save_outputs, _outputs, _input_shape, _output_shape, LCN, stack, call, ret>>

creatorVars == <<architecture, skips, to_save_outputs, _outputs, _input_shape, _output_shape, LCN>>

(***************************************************************************)
(* Generic helpers                                                         *)
(***************************************************************************)
Range(s) == {s[i] : i \in DOMAIN s}

EmptyDict == [k \in {} |-> <<>>]

\* Python values whose type the code tests: None, an int, a list
None == [none |-> TRUE]
PyInt(n) == [int |-> n]
PyList(l) == [list |-> l]
IsNone(v) == "none" \in DOMAIN v
IsInt(v) == "int" \in DOMAIN v

\* d with d[key] = value assigned
DictSet(d, key, value) ==
    [k \in DOMAIN d \cup {key} |-> IF k = key THEN value ELSE d[k]]

\* [x] * n
Repeat(x, n) == [i \in 1..n |-> x]

Max(S) == CHOOSE x \in S : \A y \in S : y <= x
Min(S) == CHOOSE x \in S : \A y \in S : x <= y

\* dict.update(other): the keys of `other` win
DictUpdate(d, other) ==
    [k \in DOMAIN d \cup DOMAIN other |-> IF k \in DOMAIN other THEN other[k] ELSE d[k]]

\* f"{module_name}.{key}"
QualifiedName(module_name, key) == module_name \o "." \o key

\* no creator is involved: a module-level function is run on its own
IdleCreator ==
    /\ architecture = <<>>
    /\ skips = EmptyDict
    /\ to_save_outputs = {}
    /\ _outputs = EmptyDict
    /\ _input_shape = None
    /\ _output_shape = None
    /\ LCN = <<>>
    /\ stack = <<>>

(***************************************************************************)
(* Skip discovery: _find_skip_connections, _find_outputs_to_save           *)
(***************************************************************************)
\* a plausible slip: `elif "inputs" in layer_config`, so that only leaves are recorded
RECURSIVE FindSkipsLeavesOnly(_, _, _)
FindSkipsLeavesOnly(module_name, layers, i) ==
    IF i > Len(layers) THEN EmptyDict
    ELSE LET layer_name == layers[i].key
             layer_config == layers[i].cfg
             key_name == QualifiedName(module_name, layer_name)
             here == IF "type" \in DOMAIN layer_config
                     THEN FindSkipsLeavesOnly(key_name, layer_config.layers, 1)
                     ELSE IF "inputs" \in DOMAIN layer_config
                          THEN [k \in {key_name} |-> layer_config.inputs]
                          ELSE EmptyDict
         IN DictUpdate(here, FindSkipsLeavesOnly(module_name, layers, i + 1))

RECURSIVE FindSkipsInLayers(_, _, _)
\* the loop of _find_skip_connections_in_module over layers.items(), from
\* item i on; `skips` accumulates as the loop body updates it
FindSkipsInLayers(module_name, layers, i) ==
    IF i > Len(layers) THEN EmptyDict
    ELSE LET layer_name == layers[i].key
             layer_config == layers[i].cfg
             key_name == QualifiedName(module_name, layer_name)
             sub == IF "type" \in DOMAIN layer_config
                    THEN FindSkipsInLayers(key_name, layer_config.layers, 1)
                    ELSE EmptyDict
             own == IF "inputs" \in DOMAIN layer_config
                    THEN [k \in {key_name} |-> layer_config.inputs]
                    ELSE EmptyDict
         IN DictUpdate(DictUpdate(sub, own),
                       FindSkipsInLayers(module_name, layers, i + 1))

_find_skip_connections_in_module(module_name, module) ==
    FindSkipsInLayers(module_name, module.layers, 1)

RECURSIVE FindSkipsInArch(_, _)
FindSkipsInArch(arch, i) ==
    IF i > Len(arch) THEN EmptyDict
    ELSE DictUpdate(_find_skip_connections_in_module(arch[i].key, arch[i].cfg),
                    FindSkipsInArch(arch, i + 1))

_find_skip_connections(arch) == FindSkipsInArch(arch, 1)

_find_outputs_to_save(sk) ==
    UNION {Range(sk[k]) : k \in DOMAIN sk}

(***************************************************************************)
(* Architectures the skip discovery is run on.  A leaf is an entry with    *)
(* no "type" key; a module has "type" and "layers"; either may carry an    *)
(* "inputs" list.  Layer keys contain no dot.                              *)
(***************************************************************************)
MaxLayers == 2       \* layers of a top-level module

LayerKeys == <<"a", "b", "c", "d">>
SubKeys == <<"x", "y">>

InputLists == {<<"input">>, <<"m.a", "input">>}

WithInputs(cfg, inputs) == [k \in DOMAIN cfg \cup {"inputs"} |->
                               IF k = "inputs" THEN inputs ELSE cfg[k]]

ReluLeaf == [operation |-> "relu", params |-> EmptyDict]

LeafCfgs == {ReluLeaf} \cup {WithInputs(ReluLeaf, i) : i \in InputLists}

ModuleCfg(type, layers) == [type |-> type, layers |-> layers]

\* the layer dicts of n items whose configurations are drawn from `cfgs`
LayerDicts(keys, n, cfgs) ==
    {[i \in 1..n |-> [key |-> keys[i], cfg |-> f[i]]] : f \in [1..n -> cfgs]}

SubModuleCfgs ==
    LET plain == {ModuleCfg("sequential", l) :
                     l \in LayerDicts(SubKeys, 1, LeafCfgs) \cup LayerDicts(SubKeys, 2, LeafCfgs)}
    IN plain \cup {WithInputs(m, <<"m.a">>) : m \in plain}

TopModuleCfgs ==
    LET plain == {ModuleCfg("sequential", l) :
                     l \in UNION {LayerDicts(LayerKeys, n, LeafCfgs \cup SubModuleCfgs) :
                                     n \in 1..MaxLayers}}
    IN plain \cup {WithInputs(m, <<"input">>) : m \in plain}

SecondModuleCfgs ==
    {ModuleCfg("sequential", <<[key |-> "a", cfg |-> c]>>) :
        c \in {ReluLeaf, WithInputs(ReluLeaf, <<"m.b">>)}}

SkipArchitectures ==
    {<<[key |-> "m", cfg |-> m]>> : m \in TopModuleCfgs}
    \cup {<<[key |-> "m", cfg |-> m], [key |-> "n", cfg |-> n]>> :
             m \in {t \in TopModuleCfgs : Len(t.layers) = 1}, n \in SecondModuleCfgs}

(***************************************************************************)
(* LCNCreator.__init__, as far as skip discovery goes                      *)
(***************************************************************************)
InitSkips ==
    /\ pc = "new"
    /\ architecture \in SkipArchitectures
    /\ skips = EmptyDict
    /\ to_save_outputs = {}
    /\ _outputs = EmptyDict
    /\ _input_shape = None
    /\ _output_shape = None
    /\ LCN = <<>>
    /\ stack = <<>>
    /\ call = None
    /\ ret = None

\* lines 145-146 of __init__
DiscoverSkips ==
    /\ pc = "new"
    /\ skips' = _find_skip_connections(architecture)
    /\ to_save_outputs' = _find_outputs_to_save(skips')
    /\ pc' = "discovered"
    /\ UNCHANGED <<architecture, _outputs, _input_shape, _output_shape, LCN, stack, call, ret>>

NextSkips == DiscoverSkips

SpecSkips == InitSkips /\ [][NextSkips]_vars

(***************************************************************************)
(* Claims about skip discovery                                             *)
(***************************************************************************)
IsLeaf(cfg) == "type" \notin DOMAIN cfg

RECURSIVE EntriesBelow(_, _)
\* every entry found in the `layers` of `module`, at any depth, with its dot-joined path
EntriesBelow(module_name, module) ==
    UNION {LET p == QualifiedName(module_name, module.layers[i].key)
               c == module.layers[i].cfg
           IN {[path |-> p, cfg |-> c]} \cup (IF IsLeaf(c) THEN {} ELSE EntriesBelow(p, c))
           : i \in DOMAIN module.layers}

NestedEntries(arch) == UNION {EntriesBelow(arch[i].key, arch[i].cfg) : i \in DOMAIN arch}

CarryInputs(entries) == {e \in entries : "inputs" \in DOMAIN e.cfg}

\* the dict that maps the path of each entry of `entries` to its inputs list
EdgesOf(entries) ==
    [p \in {e.path : e \in entries} |-> (CHOOSE e \in entries : e.path = p).cfg.inputs]

NamesIn(entries) == UNION {Range(e.cfg.inputs) : e \in entries}

\* C1 (as stated): skip_edges maps the path of each LEAF carrying an `inputs` list to
\* that list and holds no other key; outputs_to_save is the union of the names in any
\* `inputs` list.
C1_LeavesOnly ==
    pc = "discovered" =>
        LET leaves == {e \in CarryInputs(NestedEntries(architecture)) : IsLeaf(e.cfg)}
        IN /\ skips = EdgesOf(leaves)
           /\ to_save_outputs = NamesIn(leaves)

\* C1 (amended): skip_edges maps the path of every entry nested in a top-level module,
\* leaf or sub-module, that carries an `inputs` list to that list, and holds no other
\* key (a top-level module's own `inputs` is not recorded); outputs_to_save is the
\* union of the names in the recorded lists.
C1_SkipEdges ==
    pc = "discovered" =>
        LET carriers == CarryInputs(NestedEntries(architecture))
        IN /\ skips = EdgesOf(carriers)
           /\ to_save_outputs = NamesIn(carriers)

\* discovery has run on an architecture with a leaf and a sub-module that both carry
\* inputs, under a top-level module that carries inputs too
C1_Witness ==
    /\ pc = "discovered"
    /\ \E e \in CarryInputs(NestedEntries(architecture)) : IsLeaf(e.cfg)
    /\ \E e \in CarryInputs(NestedEntries(architecture)) : ~IsLeaf(e.cfg)
    /\ \E i \in DOMAIN architecture : "inputs" \in DOMAIN architecture[i].cfg
    /\ Cardinality(to_save_outputs) = 2

(***************************************************************************)
(* An image batch (a numpy array N x spatial x C) is                       *)
(*   [n |-> N, shape |-> <<spatial sizes>>, channels |-> <<channel ids>>]  *)
(* Pixel values are not modelled; a channel id names what a channel holds. *)
(***************************************************************************)
Batch(n, shape, channels) == [n |-> n, shape |-> shape, channels |-> channels]

\* images[0].shape
ImageShape(images) == images.shape \o <<Len(images.channels)>>

InputChannels(c) == [i \in 1..c |-> <<"input", i>>]

(***************************************************************************)
(* The pooling branch of _build_module (lines 522-579)                     *)
(***************************************************************************)
PoolOperations == {"max_pool2d", "avg_pool2d", "max_pool3d", "avg_pool3d"}

\* "3d" in layer_config['operation']
Is3dOperation(op) == op \in {"max_pool3d", "avg_pool3d", "conv3d", "m_norm3d", "batch_norm3d",
                             "adap_avg_pool3d"}

\* if isinstance(v, int): v = [v] * n
AsList(v, n) == IF IsInt(v) THEN Repeat(v.int, n) ELSE v.list

\* a plausible slip: the padding counted on one side only
PoolOutputSizeOnePad(size, pad, k, stride) == ((size + pad - k) \div stride) + 1

\* np.floor((size + 2*pad - k)/stride + 1), one axis
PoolOutputSize(size, pad, k, stride) == ((size + 2 * pad - k) \div stride) + 1

\* the i-th divisor of `/stride`: numpy broadcasts an int, and divides by a list
\* element by element
StrideAt(stride, i) == IF IsInt(stride) THEN stride.int ELSE stride.list[i]

\* lines 540-542
PooledShape(output_shape, padding, kernel_size, stride, is_3d) ==
    IF Len(output_shape) > 1
    THEN LET end == IF is_3d THEN 3 ELSE 2
         IN [i \in DOMAIN output_shape |->
                IF i <= end
                THEN PoolOutputSize(output_shape[i], padding[i], kernel_size[i],
                                    StrideAt(stride, i))
                ELSE output_shape[i]]
    ELSE output_shape

\* torch pooling forward with stride 1, one axis (lines 547, 565)
SameSizePass(size, k) == PoolOutputSize(size, k \div 2, k, 1)

\* lines 549-572: the batch replayed through the stride-1 layer, permuted back and sliced
PoolReplay(images, kernel_size, is_3d) ==
    LET c == Len(images.channels)
        sh == images.shape
    IN IF is_3d
       THEN \* torch_images is (N, C, W, D, H); outputs come back as (N, D', H', W', C)
            \* and are sliced [:, :, :W, :D, :D]
            LET w == SameSizePass(sh[3], kernel_size[1])
                d == SameSizePass(sh[1], kernel_size[2])
                h == SameSizePass(sh[2], kernel_size[3])
            IN Batch(images.n, <<d, Min({h, sh[3]}), Min({w, sh[1]})>>,
                     SubSeq(images.channels, 1, Min({c, sh[1]})))
       ELSE \* torch_images is (N, C, H, W); outputs come back as (N, H', W', C)
            \* and are sliced [:, :, :H, :W]
            LET h == SameSizePass(sh[1], kernel_size[1])
                w == SameSizePass(sh[2], kernel_size[2])
            IN Batch(images.n, <<h, Min({w, sh[1]})>>,
                     SubSeq(images.channels, 1, Min({c, sh[2]})))

\* the whole branch: the locals and the layer it leaves
PoolBranch(layer_config, output_shape, images, markers) ==
    LET op == layer_config.operation
        operation_params == layer_config.params
        is_3d == Is3dOperation(op)
        rank == IF is_3d THEN 3 ELSE 2
        stride == operation_params.stride
        padding == IF "padding" \in DOMAIN operation_params
                   THEN AsList(operation_params.padding, rank)
                   ELSE Repeat(0, rank)
        kernel_size == AsList(operation_params.kernel_size, rank)
        \* lines 577-578: stride restored, padding left as the list
        final_params == DictSet(DictSet(operation_params, "stride", stride),
                                "padding", PyList(padding))
    IN [output_shape |-> PooledShape(output_shape, padding, kernel_size, stride, is_3d),
        images |-> IF ~IsNone(images) /\ ~IsNone(markers)
                   THEN PoolReplay(images, kernel_size, is_3d)
                   ELSE images,
        operation_params |-> final_params,
        layer |-> [operation |-> op, params |-> final_params]]

(***************************************************************************)
(* Pooling leaves the branch is run on: valid (in, pad, kernel, stride)    *)
(***************************************************************************)
MaxSize == 4         \* spatial size of the tracked shape
MaxKernel == 3       \* pooling kernel size
MaxStride == 3       \* pooling stride

PoolKernels ==
    {PyInt(k) : k \in 1..MaxKernel} \cup {PyList(<<k, 1>>) : k \in 2..MaxKernel}

PoolStrides == {PyInt(k) : k \in 1..MaxStride} \cup {PyList(<<1, 2>>)}

PoolPaddings == {PyInt(0), PyInt(1), PyList(<<0, 1>>)}

PoolParams2d ==
    {[kernel_size |-> k, stride |-> st] : k \in PoolKernels, st \in PoolStrides}
    \cup {[kernel_size |-> k, stride |-> st, padding |-> pd] :
             k \in PoolKernels, st \in PoolStrides, pd \in PoolPaddings}

PoolParams3d ==
    {[kernel_size |-> PyInt(k), stride |-> PyInt(st)] : k \in 1..2, st \in 1..2}
    \cup {[kernel_size |-> PyList(<<2, 1, 2>>), stride |-> PyInt(st), padding |-> PyInt(pd)] :
             st \in 1..2, pd \in 0..1}

\* pad at most half the kernel (torch refuses more) and a window that fits
ValidPool(shape, params, rank) ==
    LET k == AsList(params.kernel_size, rank)
        pd == IF "padding" \in DOMAIN params THEN AsList(params.padding, rank)
              ELSE Repeat(0, rank)
    IN \A i \in 1..rank : 2 * pd[i] <= k[i] /\ shape[i] + 2 * pd[i] >= k[i]

PoolCalls ==
    {[layer_config |-> [operation |-> op, params |-> pr],
      output_shape |-> <<h, w, c>>,
      images |-> im,
      markers |-> mk] :
        op \in {"max_pool2d", "avg_pool2d"}, pr \in PoolParams2d,
        h \in 1..MaxSize, w \in {1, MaxSize}, c \in {1},
        im \in {None}, mk \in {None}}
    \cup
    {[layer_config |-> [operation |-> op, params |-> pr],
      output_shape |-> <<h, w, c>>,
      images |-> Batch(2, <<h, w>>, InputChannels(c)),
      markers |-> mk] :
        op \in {"max_pool2d"}, pr \in PoolParams2d,
        h \in {2, MaxSize}, w \in {3}, c \in {2, 5}, mk \in {None, PyList(<<>>)}}
    \cup
    {[layer_config |-> [operation |-> op, params |-> pr],
      output_shape |-> <<d, h, w, 2>>,
      images |-> Batch(1, <<d, h, w>>, InputChannels(2)),
      markers |-> PyList(<<>>)] :
        op \in {"max_pool3d", "avg_pool3d"}, pr \in PoolParams3d,
        d \in {2, 3}, h \in {2, MaxSize}, w \in {3}}

InitPool ==
    /\ pc = "pool_leaf"
    /\ call \in {c \in PoolCalls :
                    ValidPool(c.output_shape, c.layer_config.params,
                              IF Is3dOperation(c.layer_config.operation) THEN 3 ELSE 2)}
    /\ ret = None
    /\ IdleCreator

BuildPoolLeaf ==
    /\ pc = "pool_leaf"
    /\ ret' = PoolBranch(call.layer_config, call.output_shape, call.images, call.markers)
    /\ pc' = "pool_built"
    /\ UNCHANGED <<call, creatorVars, stack>>

NextPool == BuildPoolLeaf

SpecPool == InitPool /\ [][NextPool]_vars

(***************************************************************************)
(* Claims about pooling                                                    *)
(***************************************************************************)
PoolRank(c) == IF Is3dOperation(c.layer_config.operation) THEN 3 ELSE 2

\* the value a pooling parameter takes on axis i, as the leaf's params declare it
ParamOnAxis(c, name, default, i) ==
    IF name \in DOMAIN c.layer_config.params
    THEN LET v == c.layer_config.params[name]
         IN IF IsInt(v) THEN v.int ELSE v.list[i]
    ELSE default

\* C7: after a pooling leaf is built, the tracked size `out` of every spatial axis is
\* floor((in + 2*pad - kernel)/stride + 1) of the tracked size before the leaf, that is
\* the integer with (out-1)*stride <= in + 2*pad - kernel < out*stride, and the channel
\* entry of the tracked shape is unchanged.
C7_PoolShape ==
    pc = "pool_built" =>
        /\ Len(ret.output_shape) = Len(call.output_shape)
        /\ \A i \in 1..PoolRank(call) :
              LET span == call.output_shape[i]
                          + 2 * ParamOnAxis(call, "padding", 0, i)
                          - ParamOnAxis(call, "kernel_size", 0, i)
                  st == ParamOnAxis(call, "stride", 0, i)
                  out == ret.output_shape[i]
              IN (out - 1) * st <= span /\ span < out * st
        /\ ret.output_shape[Len(ret.output_shape)] = call.output_shape[Len(call.output_shape)]

\* a pooling leaf with stride = kernel > 1 and no padding has been built, and another
\* with padding
C7_Witness ==
    /\ pc = "pool_built"
    /\ PoolRank(call) = 2
    /\ \A i \in 1..2 : /\ ParamOnAxis(call, "stride", 0, i) = ParamOnAxis(call, "kernel_size", 0, i)
                       /\ ParamOnAxis(call, "kernel_size", 0, i) = 2
                       /\ ParamOnAxis(call, "padding", 0, i) = 0
    /\ call.output_shape = <<MaxSize, MaxSize, 1>>
    /\ ret.output_shape = <<MaxSize \div 2, MaxSize \div 2, 1>>

(***************************************************************************)
(* Filter pruning: _compute_similarity_matrix, _remove_similar_filters     *)
(*                                                                         *)
(* A convolution layer is a record of the attributes torch keeps, `weight` *)
(* being the sequence of its kernels.  Where kernel values matter a kernel *)
(* is [vec |-> <<a, b>>], its flattened weights in fifths (so <<3, 4>> has *)
(* norm 1); inner products and similarity levels are in twenty-fifths.     *)
(***************************************************************************)
UnitInner == 5 * 5

Inner(u, v) == u.vec[1] * v.vec[1] + u.vec[2] * v.vec[2]

\* a plausible slip: the full matrix of inner products, a kernel's product with itself
\* on the diagonal
SimilarityWithDiagonal(filters) ==
    [i \in DOMAIN filters |-> [j \in DOMAIN filters |-> Inner(filters[i], filters[j])]]

\* squareform(pdist(filters, metric=np.inner)): the inner products off the diagonal,
\* zero on it
_compute_similarity_matrix(filters) ==
    [i \in DOMAIN filters |-> [j \in DOMAIN filters |->
        IF i = j THEN 0 ELSE Inner(filters[i], filters[j])]]

\* a plausible slip: the comparison the wrong way round
SuppressedBelow(similarity, similarity_level) == similarity <= similarity_level

\* line 1192: mask = similarity_matrix[i] >= similarity_level
Suppressed(similarity, similarity_level) == similarity >= similarity_level

RECURSIVE KeepFilterLoop(_, _, _, _)
\* lines 1189-1195, from filter i on
KeepFilterLoop(similarity_matrix, similarity_level, keep_filter, i) ==
    IF i > Len(keep_filter) THEN keep_filter
    ELSE KeepFilterLoop(similarity_matrix, similarity_level,
            IF keep_filter[i]
            THEN [j \in DOMAIN keep_filter |->
                     keep_filter[j] /\ ~Suppressed(similarity_matrix[i][j], similarity_level)]
            ELSE keep_filter,
            i + 1)

\* filters[keep_filter]
SelectSeq2(filters, keep_filter) ==
    LET idx == {i \in DOMAIN filters : keep_filter[i]}
        RECURSIVE Pick(_)
        Pick(i) == IF i > Len(filters) THEN <<>>
                   ELSE (IF i \in idx THEN <<filters[i]>> ELSE <<>>) \o Pick(i + 1)
    IN Pick(1)

Failure(what) == [error |-> what]
Failed(r) == "error" \in DOMAIN r

\* lines 1201-1208: nn.Conv2d(in_channels, out_channels, kernel_size=, stride=, bias=,
\* padding=), the other attributes taking torch's defaults, with the selected kernels
NewConv(layer, selected_filters) ==
    [operation |-> "conv2d",
     in_channels |-> layer.in_channels,
     out_channels |-> Len(selected_filters),
     kernel_size |-> layer.kernel_size,
     stride |-> layer.stride,
     padding |-> layer.padding,
     dilation |-> <<1, 1>>,
     groups |-> 1,
     bias |-> layer.bias,
     padding_mode |-> "zeros",
     weight |-> selected_filters,
     weight_shape |-> layer.weight_shape]

\* a plausible slip: the range closed at 0
SimilarityInRangeClosed(similarity_level) ==
    0 <= similarity_level /\ similarity_level <= UnitInner

\* line 1180: 0 < similarity_level <= 1
SimilarityInRange(similarity_level) ==
    0 < similarity_level /\ similarity_level <= UnitInner

_remove_similar_filters(layer, similarity_level) ==
    IF ~SimilarityInRange(similarity_level)
    THEN Failure("AssertionError: Similarity must be in range (0, 1]")
    ELSE IF Len(layer.weight) = 0
    THEN Failure("pdist: no observation")
    ELSE LET filters == layer.weight
             similarity_matrix == _compute_similarity_matrix(filters)
             keep_filter == KeepFilterLoop(similarity_matrix, similarity_level,
                                           [i \in DOMAIN filters |-> TRUE], 1)
             selected_filters == SelectSeq2(filters, keep_filter)
         IN \* bias=layer.bias: None when the layer has no bias; else a tensor, whose
            \* truth value is an error unless it has a single element
            IF layer.bias /\ layer.out_channels > 1
            THEN Failure("RuntimeError: Boolean value of Tensor is ambiguous")
            ELSE NewConv(layer, selected_filters)

\* the kernels synthesised from images carry no values, so their inner products are
\* not known: every selection that keeps the first kernel is possible
RemoveSimilarFiltersOf(layer, similarity_level) ==
    IF \A k \in DOMAIN layer.weight : "vec" \in DOMAIN layer.weight[k]
    THEN {_remove_similar_filters(layer, similarity_level)}
    ELSE IF ~SimilarityInRange(similarity_level)
    THEN {Failure("AssertionError: Similarity must be in range (0, 1]")}
    ELSE IF layer.bias /\ layer.out_channels > 1
    THEN {Failure("RuntimeError: Boolean value of Tensor is ambiguous")}
    ELSE {NewConv(layer, SelectSeq2(layer.weight, keep_filter)) :
             keep_filter \in {k \in [DOMAIN layer.weight -> BOOLEAN] : k[1]}}

(***************************************************************************)
(* Layers and similarity levels the pruning is run on                      *)
(***************************************************************************)
MaxFilters == 4      \* kernels of the layer that is pruned

\* unit kernels, and one of norm sqrt(2)
KernelPool == {[vec |-> v] : v \in {<<5, 0>>, <<4, 3>>, <<3, 4>>, <<0, 5>>, <<-3, 4>>, <<5, 5>>}}

\* 0.2, 0.6, 0.8, 0.96, 1.0 and, out of range, 0 and 1.2
SimilarityLevels == {0, 5, 15, 20, 24, 25, 30}

ConvLayer(op, in_channels, kernel_size, dilation, padding_mode, weight) ==
    [operation |-> op,
     in_channels |-> in_channels,
     out_channels |-> Len(weight),
     kernel_size |-> kernel_size,
     stride |-> [a \in DOMAIN kernel_size |-> 1],
     padding |-> [a \in DOMAIN kernel_size |-> 0],
     dilation |-> dilation,
     groups |-> 1,
     bias |-> FALSE,
     padding_mode |-> padding_mode,
     weight |-> weight,
     weight_shape |-> <<in_channels>> \o kernel_size]

\* layers away from torch's defaults: dilated, reflect-padded, strided, with a bias, 3D
OtherLayers ==
    UNION {{ConvLayer("conv2d", 1, <<1, 2>>, <<2, 2>>, "zeros", w),
            ConvLayer("conv2d", 1, <<1, 2>>, <<1, 1>>, "reflect", w),
            [ConvLayer("conv2d", 1, <<1, 2>>, <<1, 1>>, "zeros", w) EXCEPT !.stride = <<2, 2>>],
            [ConvLayer("conv2d", 1, <<1, 2>>, <<1, 1>>, "zeros", w) EXCEPT !.bias = TRUE],
            ConvLayer("conv3d", 1, <<1, 1, 2>>, <<1, 1, 1>>, "zeros", w)} :
        w \in UNION {[1..n -> {[vec |-> <<5, 0>>], [vec |-> <<4, 3>>]}] : n \in 1..2}}

PruneLayers ==
    {ConvLayer("conv2d", 1, <<1, 2>>, <<1, 1>>, "zeros", w) :
        w \in UNION {[1..n -> KernelPool] : n \in 1..MaxFilters}} \cup OtherLayers

InitPrune ==
    /\ pc = "prune"
    /\ call \in {[layer |-> l, similarity_level |-> t] : l \in PruneLayers, t \in SimilarityLevels}
    /\ ret = None
    /\ IdleCreator

\* the layer pruned at the requested level
RemoveSimilarFilters ==
    /\ pc = "prune"
    /\ ret' = [first |-> _remove_similar_filters(call.layer, call.similarity_level)]
    /\ pc' = "pruned"
    /\ UNCHANGED <<call, creatorVars, stack>>

\* a second build prunes the same layer at another level; the layer the first build
\* left is pruned at that level as well
RemoveSimilarFiltersAgain ==
    /\ pc = "pruned"
    /\ ~Failed(ret.first)
    /\ \E t \in SimilarityLevels :
          ret' = [first |-> ret.first,
                  level |-> t,
                  second |-> _remove_similar_filters(call.layer, t),
                  again |-> _remove_similar_filters(ret.first, t)]
    /\ pc' = "compared"
    /\ UNCHANGED <<call, creatorVars, stack>>

NextPrune == RemoveSimilarFilters \/ RemoveSimilarFiltersAgain

SpecPrune == InitPrune /\ [][NextPrune]_vars

(***************************************************************************)
(* Claims about pruning                                                    *)
(***************************************************************************)
\* two prunings of one layer at valid levels t1 <= t2
ComparedLevels ==
    /\ pc = "compared"
    /\ ~Failed(ret.second)
    /\ call.similarity_level <= ret.level

\* C8 (as stated): for t1 <= t2 in (0, 1], the number of filters kept at t1 is greater
\* than or equal to the number kept at t2.
C8_KeptCountMonotonic ==
    ComparedLevels => Len(ret.first.weight) >= Len(ret.second.weight)

\* C8 (amended): for t1 <= t2 in (0, 1], the filters kept after pruning at t1 are all
\* kept when that pruned layer is pruned at t2: no two of them are as similar as t2.
C8_KeptSurviveHigherLevel ==
    ComparedLevels =>
        /\ ~Failed(ret.again)
        /\ ret.again.weight = ret.first.weight
        /\ \A i, j \in DOMAIN ret.first.weight :
              i # j => Inner(ret.first.weight[i], ret.first.weight[j]) < ret.level

\* a layer of four kernels lost some at 0.6 and fewer at 0.96
C8_Witness ==
    /\ ComparedLevels
    /\ call.similarity_level = 15
    /\ ret.level = 24
    /\ Len(call.layer.weight) = 4
    /\ Len(ret.first.weight) = 2
    /\ Len(ret.second.weight) = 3

(***************************************************************************)
(* Patch extraction: _generate_patches                                     *)
(*                                                                         *)
(* A marker map (one image's label image) is [shape |-> <<sizes>>,         *)
(* val |-> [coordinates -> label]], coordinates counted from 0 as numpy    *)
(* does.  A patch is described by the window it is: the image, the window  *)
(* index it was read at, the image coordinates of its first sample, the    *)
(* step between samples and the number of samples on each axis; `marker`   *)
(* records the marked position the patch was generated for.                *)
(***************************************************************************)
\* the coordinates of an array of this shape, in row-major order
RowMajor(shape) ==
    IF Len(shape) = 2
    THEN [k \in 1..(shape[1] * shape[2]) |-> <<(k - 1) \div shape[2], (k - 1) % shape[2]>>]
    ELSE [k \in 1..(shape[1] * shape[2] * shape[3]) |->
             <<(k - 1) \div (shape[2] * shape[3]),
               ((k - 1) \div shape[3]) % shape[2],
               (k - 1) % shape[3]>>]

\* np.where(image_markers != 0), as a sequence of coordinate tuples
NonZero(image_markers) ==
    SelectSeq(RowMajor(image_markers.shape), LAMBDA c : image_markers.val[c] # 0)

\* the number of entries of np.arange(0, size, step)
ArangeLen(size, step) == (size + step - 1) \div step

\* array.squeeze(): the axes of length 1 dropped
Squeeze(shape) == SelectSeq(shape, LAMBDA n : n # 1)

\* a plausible slip: the binary special case of _prepare_markers applied here
PatchLabelBinaryKept(image_markers, c) ==
    IF Max({image_markers.val[x] : x \in DOMAIN image_markers.val}) > 1
    THEN image_markers.val[c] - 1
    ELSE image_markers.val[c]

\* line 937: labels = image_markers[indices] - 1
PatchLabel(image_markers, c) == image_markers.val[c] - 1

\* lines 932-956 for one image: the marked positions that pass the mask, in scan order;
\* for three axes the third coordinate is read from indices[1] (line 936)
MaskedMarkers(image_markers, image_shape, is_2d) ==
    LET indices == NonZero(image_markers)
        Pos(c) == IF is_2d THEN <<c[1], c[2]>> ELSE <<c[1], c[2], c[2]>>
        InRange(c) == \A a \in 1..Len(Pos(c)) : Pos(c)[a] < image_shape[a]
        kept == SelectSeq(indices, InRange)
    IN [k \in DOMAIN kept |-> [at |-> Pos(kept[k]),
                                marker |-> kept[k],
                                label |-> PatchLabel(image_markers, kept[k])]]

\* the patches and labels one image contributes (lines 922-969)
ImagePatches(image_index, image_shape, image_markers, in_channels, dilated_kernel_size, dilated_padding, dilation, is_2d) ==
    LET rank == Len(dilated_kernel_size)
        marked == MaskedMarkers(image_markers, image_shape, is_2d)
        subsample == \E a \in 1..rank : dilation[a] > 1
        \* the windows over the channel axis: one unless in_channels is below the
        \* image's channel count
        windows == image_shape[rank + 1] - in_channels + 1
        PatchAt(m, w) ==
            [image |-> image_index,
             marker |-> m.marker,
             at |-> m.at,
             first |-> [a \in 1..rank |-> m.at[a] - dilated_padding[a]],
             first_channel |-> w,
             step |-> IF subsample THEN dilation ELSE Repeat(1, rank),
             samples |-> IF subsample
                         THEN [a \in 1..rank |-> ArangeLen(dilated_kernel_size[a], dilation[a])]
                         ELSE dilated_kernel_size,
             channels |-> in_channels]
    IN [patches |-> [k \in 1..(Len(marked) * windows) |->
                        PatchAt(marked[((k - 1) \div windows) + 1], (k - 1) % windows)],
        labels |-> [k \in DOMAIN marked |-> marked[k].label]]

RECURSIVE PatchLoop(_, _, _, _, _, _, _, _)
\* the loop of lines 918-976 from image i on; `acc` is (all_patches, all_labels),
\* None until an image has contributed
PatchLoop(images, markers, in_channels, dilated_kernel_size, dilated_padding, dilation, i, acc) ==
    IF i > Min({images.n, Len(markers)}) THEN acc
    ELSE LET image_markers == markers[i]
             image_shape == ImageShape(images)
             rank == Len(dilated_kernel_size)
         IN IF image_markers.shape[1] = 0
            THEN PatchLoop(images, markers, in_channels, dilated_kernel_size,
                           dilated_padding, dilation, i + 1, acc)
            ELSE IF Len(image_shape) # rank + 1
            THEN Failure("ValueError: np.pad: pad_width does not match the image")
            ELSE IF \/ \E a \in 1..rank :
                          dilated_kernel_size[a] > image_shape[a] + 2 * dilated_padding[a]
                    \/ in_channels > image_shape[rank + 1]
            THEN Failure("ValueError: window_shape is too large")
            ELSE IF /\ \E a \in 1..rank : dilation[a] > 1
                    /\ \E a \in 1..rank : dilation[a] = 0
            THEN Failure("ZeroDivisionError: arange step")
            ELSE LET got == ImagePatches(i - 1, image_shape, image_markers, in_channels,
                                         dilated_kernel_size, dilated_padding, dilation,
                                         rank = 2)
                     next == IF IsNone(acc) THEN got
                             ELSE [patches |-> acc.patches \o got.patches,
                                   labels |-> acc.labels \o got.labels]
                 IN PatchLoop(images, markers, in_channels, dilated_kernel_size,
                              dilated_padding, dilation, i + 1, next)

\* kernel_size and dilation are lists, one entry per spatial axis
_generate_patches(images, markers, in_channels, kernel_size, dilation) ==
    LET rank == Len(kernel_size)
        dilated_kernel_size ==
            [a \in 1..rank |-> kernel_size[a] + (dilation[a] - 1) * (kernel_size[a] - 1)]
        dilated_padding == [a \in 1..rank |-> dilated_kernel_size[a] \div 2]
        all == PatchLoop(images, markers, in_channels, dilated_kernel_size,
                         dilated_padding, dilation, 1, None)
    IN IF Failed(all) THEN all
       ELSE IF IsNone(all)
       THEN Failure("AttributeError: 'NoneType' object has no attribute 'squeeze'")
       ELSE [patches |-> all.patches,
             labels |-> all.labels,
             \* the shape of all_patches.squeeze()
             shape |-> Squeeze(<<Len(all.patches)>>
                               \o (IF Len(all.patches) = 0
                                   THEN IF \E a \in 1..rank : dilation[a] > 1
                                        THEN [a \in 1..rank |->
                                                 ArangeLen(dilated_kernel_size[a], dilation[a])]
                                        ELSE dilated_kernel_size
                                   ELSE all.patches[1].samples)
                               \o <<in_channels>>)]

(***************************************************************************)
(* Images and markers the patch extraction is run on                       *)
(***************************************************************************)
MaxLabel == 2        \* largest marker label

Coordinates(shape) == Range(RowMajor(shape))

MarkerMap(shape, val) == [shape |-> shape, val |-> val]

\* the map with the given labels at the given positions, 0 elsewhere
MarkedAt(shape, marks) ==
    MarkerMap(shape, [c \in Coordinates(shape) |-> IF c \in DOMAIN marks THEN marks[c] ELSE 0])

AllMaps2x2 == {MarkerMap(<<2, 2>>, f) : f \in [Coordinates(<<2, 2>>) -> 0..MaxLabel]}

\* a marker array with no row, an unmarked map, a binary map, a map larger than the images
EmptyMap == MarkerMap(<<0, 2>>, <<>>)
MapPool2d ==
    {MarkedAt(<<2, 2>>, <<>>),
     MarkedAt(<<2, 2>>, (<<0, 0>> :> 1) @@ (<<1, 1>> :> 1)),
     MarkedAt(<<2, 2>>, (<<0, 1>> :> MaxLabel) @@ (<<1, 0>> :> 1) @@ (<<1, 1>> :> MaxLabel)),
     MarkedAt(<<3, 3>>, (<<0, 1>> :> 1) @@ (<<2, 2>> :> 2) @@ (<<1, 2>> :> MaxLabel))}

Markers3d == MarkedAt(<<2, 2, 2>>, (<<0, 0, 1>> :> 1) @@ (<<1, 0, 1>> :> 2) @@ (<<1, 1, 0>> :> 1))

MapPool3d ==
    {MarkedAt(<<2, 2, 2>>, (c :> l)) : c \in Coordinates(<<2, 2, 2>>), l \in {1, MaxLabel}}
    \cup {Markers3d}

PatchGeometry2d ==
    {[kernel_size |-> k, dilation |-> d] :
        k \in {<<1, 1>>, <<2, 2>>, <<3, 3>>}, d \in {<<0, 0>>, <<1, 1>>, <<2, 2>>}}
    \cup {[kernel_size |-> <<3, 1>>, dilation |-> <<2, 1>>],
          [kernel_size |-> <<3, 3>>, dilation |-> <<2, 0>>]}

PatchCall(images, markers, in_channels, g) ==
    [images |-> images, markers |-> markers, in_channels |-> in_channels,
     kernel_size |-> g.kernel_size, dilation |-> g.dilation]

PatchCalls ==
    {PatchCall(Batch(1, sh, InputChannels(2)), <<m>>, 2,
               [kernel_size |-> <<3, 3>>, dilation |-> <<1, 1>>]) :
        sh \in {<<2, 2>>, <<1, 2>>}, m \in AllMaps2x2}
    \cup
    {PatchCall(Batch(Len(ms), <<2, 2>>, InputChannels(c[2])), ms, c[1], g) :
        ms \in {<<m>> : m \in MapPool2d}
               \cup {<<m1, m2>> : m1 \in MapPool2d, m2 \in MapPool2d \cup {EmptyMap}}
               \cup {<<EmptyMap>>},
        c \in {<<1, 1>>, <<2, 2>>, <<1, 2>>, <<2, 1>>},
        g \in PatchGeometry2d}
    \cup
    {PatchCall(Batch(1, sh, InputChannels(2)), <<m>>, 2, [kernel_size |-> k, dilation |-> d]) :
        sh \in {<<2, 2, 2>>, <<2, 2, 1>>}, m \in MapPool3d,
        k \in {<<1, 1, 1>>, <<3, 3, 3>>}, d \in {<<1, 1, 1>>, <<2, 2, 2>>}}

InitPatches ==
    /\ pc = "patches"
    /\ call \in PatchCalls
    /\ ret = None
    /\ IdleCreator

GeneratePatches ==
    /\ pc = "patches"
    /\ ret' = _generate_patches(call.images, call.markers, call.in_channels,
                                call.kernel_size, call.dilation)
    /\ pc' = "patched"
    /\ UNCHANGED <<call, creatorVars, stack>>

NextPatches == GeneratePatches

SpecPatches == InitPatches /\ [][NextPatches]_vars

(***************************************************************************)
(* Claims about patch extraction                                           *)
(***************************************************************************)
MaxValue(image_markers) == Max({image_markers.val[c] : c \in DOMAIN image_markers.val})

\* C2: each marked pixel gets the label marker_value - 1, unless the marker map's
\* maximum value is 1 (binary markers), in which case the label is the marker value
\* unchanged.
C2_BinaryLabelsUnshifted ==
    (pc = "patched" /\ ~Failed(ret) /\ Len(ret.labels) = Len(ret.patches)) =>
        \A k \in DOMAIN ret.labels :
            LET image_markers == call.markers[ret.patches[k].image + 1]
                marker_value == image_markers.val[ret.patches[k].marker]
            IN ret.labels[k] = IF MaxValue(image_markers) = 1
                               THEN marker_value
                               ELSE marker_value - 1

(***************************************************************************)
(* Clustering: _kmeans_roots                                               *)
(*                                                                         *)
(* A root is described by the label it was computed for and by `members`,  *)
(* the positions (in the clustered array) of the rows it is the mean of: a *)
(* row taken over as it is has itself as only member.                      *)
(***************************************************************************)
\* a plausible slip: the labels in the order they are first met
FirstSeenLabels(labels) ==
    LET RECURSIVE Seen(_, _)
        Seen(i, acc) == IF i > Len(labels) THEN acc
                        ELSE Seen(i + 1, IF labels[i] \in Range(acc) THEN acc
                                         ELSE Append(acc, labels[i]))
    IN Seen(1, <<>>)

\* np.unique(labels): the distinct labels, ascending
UniqueLabels(labels) ==
    LET RECURSIVE Ascending(_)
        Ascending(S) == IF S = {} THEN <<>>
                        ELSE <<Min(S)>> \o Ascending(S \ {Min(S)})
    IN Ascending(Range(labels))

\* the positions of the rows with the given label, ascending
RowsOfLabel(labels, label) == SelectSeq([k \in DOMAIN labels |-> k], LAMBDA k : labels[k] = label)

RECURSIVE Grow(_, _, _, _)
\* the ways of spreading rows[i..] over clusters so that there are n non-empty clusters
\* in the end; a cluster is listed at the position of its first row
Grow(rows, i, n, clusters) ==
    IF i > Len(rows) THEN {clusters}
    ELSE LET open == IF Len(clusters) < n
                     THEN Grow(rows, i + 1, n, Append(clusters, {rows[i]}))
                     ELSE {}
             join == IF Len(rows) - i >= n - Len(clusters)
                     THEN UNION {Grow(rows, i + 1, n, [clusters EXCEPT ![b] = @ \cup {rows[i]}]) :
                                    b \in DOMAIN clusters}
                     ELSE {}
         IN open \cup join

\* KMeans(n_clusters).fit(rows).cluster_centers_: n centers, each the mean of the rows
\* assigned to it; which rows end up together depends on the data and on the random
\* initialisation
KMeansCenters(rows, label, n_clusters) ==
    {[roots |-> [c \in DOMAIN clusters |-> [label |-> label, members |-> clusters[c]]]] :
        clusters \in Grow(rows, 1, n_clusters, <<>>)}

\* lines 1006-1018: the roots one label contributes
RootsOfLabel(labels, label, n_clusters_per_label) ==
    LET rows == RowsOfLabel(labels, label)
    IN IF Len(rows) > n_clusters_per_label
       THEN IF n_clusters_per_label < 1
            THEN {Failure("ValueError: n_clusters must be at least 1")}
            ELSE KMeansCenters(rows, label, n_clusters_per_label)
       ELSE {[roots |-> [k \in DOMAIN rows |-> [label |-> label, members |-> {rows[k]}]]]}

RECURSIVE RootsFrom(_, _, _, _)
\* the loop of lines 1005-1024 from possible_labels[i] on
RootsFrom(labels, possible_labels, n_clusters_per_label, i) ==
    IF i > Len(possible_labels) THEN {[roots |-> <<>>]}
    ELSE LET here == RootsOfLabel(labels, possible_labels[i], n_clusters_per_label)
             rest == RootsFrom(labels, possible_labels, n_clusters_per_label, i + 1)
         IN {IF Failed(h) THEN h ELSE IF Failed(r) THEN r ELSE [roots |-> h.roots \o r.roots] : h \in here, r \in rest}

\* the results the call can have: an array of roots, or a failure
_kmeans_roots(patches, labels, n_clusters_per_label) ==
    IF Len(labels) = 0
    THEN {Failure("AttributeError: 'NoneType' object has no attribute 'reshape'")}
    ELSE IF Len(labels) # Len(patches)
    THEN {Failure("IndexError: boolean index did not match indexed array")}
    ELSE RootsFrom(labels, UniqueLabels(labels), n_clusters_per_label, 1)

(***************************************************************************)
(* Labelled rows the clustering is run on                                  *)
(***************************************************************************)
MaxPatches == 4      \* rows that are clustered
MaxClusters == 3     \* clusters per label

KmeansCalls ==
    {[patches |-> [k \in 1..m |-> k], labels |-> ls, n_clusters_per_label |-> n] :
        m \in 0..MaxPatches, ls \in UNION {[1..j -> 0..MaxLabel] : j \in 0..MaxPatches},
        n \in 0..MaxClusters}

InitKmeans ==
    /\ pc = "kmeans"
    /\ call \in {c \in KmeansCalls : Len(c.labels) \in {Len(c.patches), Len(c.patches) - 1}}
    /\ ret = None
    /\ IdleCreator

KmeansRoots ==
    /\ pc = "kmeans"
    /\ ret' \in _kmeans_roots(call.patches, call.labels, call.n_clusters_per_label)
    /\ pc' = "clustered"
    /\ UNCHANGED <<call, creatorVars, stack>>

NextKmeans == KmeansRoots

SpecKmeans == InitKmeans /\ [][NextKmeans]_vars

(***************************************************************************)
(* Claims about clustering                                                 *)
(***************************************************************************)
RootsWithLabel(roots, label) == SelectSeq(roots, LAMBDA r : r.label = label)

\* C3: a label with more patches than clusters_per_label contributes exactly
\* clusters_per_label kernels; a label with at most that many patches contributes
\* one kernel per patch, namely its patches in order; the kernels of the labels
\* follow each other in ascending label order.
C3_RootsPerLabel ==
    (pc = "clustered" /\ ~Failed(ret)) =>
        LET labels == call.labels
            n == call.n_clusters_per_label
        IN /\ \A label \in Range(labels) :
                 LET rows == RowsOfLabel(labels, label)
                     roots == RootsWithLabel(ret.roots, label)
                 IN IF Len(rows) > n
                    THEN Len(roots) = n
                    ELSE /\ Len(roots) = Len(rows)
                         /\ \A k \in DOMAIN rows : roots[k].members = {rows[k]}
           /\ \A k \in DOMAIN ret.roots : ret.roots[k].label \in Range(labels)
           /\ \A j, k \in DOMAIN ret.roots : j < k => ret.roots[j].label <= ret.roots[k].label

\* a label that is clustered and a smaller label, met later, that is taken over as it is
C3_Witness ==
    /\ pc = "clustered"
    /\ ~Failed(ret)
    /\ \E big, small \in Range(call.labels) :
          /\ small < big
          /\ Len(RowsOfLabel(call.labels, big)) > call.n_clusters_per_label
          /\ Len(RowsOfLabel(call.labels, small)) <= call.n_clusters_per_label
          /\ RowsOfLabel(call.labels, big)[1] < RowsOfLabel(call.labels, small)[1]
          /\ Len(RootsWithLabel(ret.roots, big)) = call.n_clusters_per_label

(***************************************************************************)
(* Kernel synthesis: _calculate_convNd_weights, _select_kernels_with_pca,  *)
(* _create_random_pca_kernels, _initialize_convNd_weights                  *)
(*                                                                         *)
(* An array of kernels is [kernels |-> <<...>>, shape |-> <<...>>], shape  *)
(* being the shape of one kernel.  The images carry no pixel values, so a  *)
(* kernel records how it was obtained and whether its L2 norm is 1.  The   *)
(* images are taken to be in general position: distinct windows give       *)
(* distinct, non-zero standardised patches, so distinct rows of an array   *)
(* are distinct vectors and the mean of two or more distinct unit vectors  *)
(* has norm below 1.                                                       *)
(***************************************************************************)
RECURSIVE Product(_)
Product(shape) == IF Len(shape) = 0 THEN 1 ELSE Head(shape) * Product(Tail(shape))

\* lines 1069-1075: kernel_weights / (norm + 0.00001)
NormalizedKernel(root) == [kind |-> "marker", label |-> root.label, members |-> root.members, unit |-> TRUE]

_calculate_convNd_weights(images, markers, in_channels, kernel_size, dilation, number_of_kernels_per_marker) ==
    LET generated == _generate_patches(images, markers, in_channels, kernel_size, dilation)
    IN IF Failed(generated) THEN {generated}
       ELSE IF Len(generated.shape) < Len(kernel_size)
       THEN {Failure("AxisError: axis is out of bounds for array")}
       ELSE LET \* the rows of the squeezed array: the patches, unless their axis was dropped
                patches == [k \in 1..generated.shape[1] |-> k]
            IN {IF Failed(r) THEN r
                ELSE [kernels |-> [k \in DOMAIN r.roots |-> NormalizedKernel(r.roots[k])],
                      shape |-> Tail(generated.shape)] :
                   r \in _kmeans_roots(patches, generated.labels, number_of_kernels_per_marker)}

\* a plausible slip: as many components as the data allow
PcaComponentsAll(k, rows, columns) == Min({rows, columns})

\* lines 848-849: the number of principal components asked for
PcaComponents(k, rows, columns) == IF k > rows \/ k > columns THEN Min({rows, columns}) ELSE k

\* pca.components_: orthonormal rows
_select_kernels_with_pca(kernels, k) ==
    LET components == PcaComponents(k, Len(kernels.kernels), Product(kernels.shape))
    IN [kernels |-> [c \in 1..components |-> [kind |-> "pca", component |-> c, unit |-> TRUE]],
        shape |-> kernels.shape]

\* n random kernels, normalised and centred, reduced to k components
_create_random_pca_kernels(n, k, in_channels, kernel_size) ==
    _select_kernels_with_pca(
        [kernels |-> [i \in 1..n |-> [kind |-> "random", index |-> i, unit |-> FALSE]],
         shape |-> <<in_channels>> \o kernel_size], k)

\* lines 1121-1124: the kernel axes moved behind the channel axis
Transposed(kernels) ==
    LET shape == kernels.shape
    IN IF Len(shape) = 3
       THEN [kernels |-> kernels.kernels, shape |-> <<shape[3], shape[1], shape[2]>>]
       ELSE IF Len(shape) = 4
       THEN [kernels |-> kernels.kernels, shape |-> <<shape[4], shape[3], shape[1], shape[2]>>]
       ELSE Failure("ValueError: axes don't match array")

\* line 1133: _kmeans_roots(kernels_weights, np.ones(...), out_channels); the centres
\* are returned as they are
Reclustered(kernels, out_channels) ==
    {IF Failed(r) THEN r
     ELSE [kernels |-> [c \in DOMAIN r.roots |->
                          [kind |-> "center",
                           members |-> r.roots[c].members,
                           unit |-> /\ Cardinality(r.roots[c].members) = 1
                                    /\ \A m \in r.roots[c].members : kernels.kernels[m].unit]],
           shape |-> kernels.shape] :
        r \in _kmeans_roots(kernels.kernels, [k \in DOMAIN kernels.kernels |-> 1], out_channels)}

\* lines 1126-1133, for one array of marker kernels
Reduced(kernels, out_channels) ==
    LET generated == Len(kernels.kernels)
    IN IF ~(IsNone(out_channels) \/ generated >= out_channels.int)
       THEN {Failure("AssertionError: Not enough kernels were generated!!!")}
       ELSE IF IsNone(out_channels) \/ ~(out_channels.int < generated) THEN {kernels}
       ELSE IF Product(kernels.shape) > out_channels.int
       THEN {_select_kernels_with_pca(kernels, out_channels.int)}
       ELSE Reclustered(kernels, out_channels.int)

\* images and markers are None or a batch / PyList of marker maps; out_channels is None
\* or a PyInt; the result is the set of arrays the call can return, failures included
_initialize_convNd_weights(images, markers, in_channels, out_channels, kernel_size, dilation, number_of_kernels_per_marker, use_random_kernels) ==
    IF use_random_kernels
    THEN IF IsNone(out_channels)
         THEN {Failure("TypeError: unsupported operand type(s) for *: 'NoneType' and 'int'")}
         ELSE {_create_random_pca_kernels(out_channels.int * 10, out_channels.int,
                                          in_channels, kernel_size)}
    ELSE IF ~IsNone(images) /\ ~IsNone(markers)
    THEN IF IsNone(number_of_kernels_per_marker)
         THEN {Failure("TypeError: '>' not supported between 'int' and 'NoneType'")}
         ELSE UNION {IF Failed(w) THEN {w}
                     ELSE IF Failed(Transposed(w)) THEN {Transposed(w)}
                     ELSE Reduced(Transposed(w), out_channels) :
                        w \in _calculate_convNd_weights(images, markers.list, in_channels,
                                                        kernel_size, dilation,
                                                        number_of_kernels_per_marker.int)}
    ELSE IF IsNone(out_channels)
    THEN {Failure("TypeError: rand(): argument 'size' must be tuple of ints")}
    ELSE {[kernels |-> [i \in 1..out_channels.int |-> [kind |-> "random", index |-> i, unit |-> FALSE]],
           shape |-> <<in_channels>> \o kernel_size]}

(***************************************************************************)
(* Images, markers and requests the synthesis is run on                    *)
(***************************************************************************)
\* 3x3 marker maps: the first m positions in scan order marked, all with one label or
\* with two labels in turn
MarkedPrefix(m, first_label, second_label) ==
    MarkerMap(<<3, 3>>,
              [c \in Coordinates(<<3, 3>>) |->
                  LET k == c[1] * 3 + c[2]
                  IN IF k >= m THEN 0 ELSE IF k % 2 = 0 THEN first_label ELSE second_label])

SynthesisMaps ==
    {MarkedPrefix(m, l[1], l[2]) :
        m \in {0, 1, 2, 5, 9}, l \in {<<1, 1>>, <<1, 2>>, <<MaxLabel, 1>>}}

SynthesisGeometry ==
    {[kernel_size |-> <<2, 2>>, dilation |-> <<1, 1>>],
     [kernel_size |-> <<2, 2>>, dilation |-> <<2, 2>>],
     [kernel_size |-> <<3, 3>>, dilation |-> <<1, 1>>],
     [kernel_size |-> <<3, 3>>, dilation |-> <<0, 0>>],
     [kernel_size |-> <<1, 1>>, dilation |-> <<1, 1>>]}

RequestedChannels == {None} \cup {PyInt(n) : n \in {1, 2, 8, 9, 12}}

KernelsPerMarker == {PyInt(n) : n \in {0, 1, 8, 9}}

WeightsCall(images, markers, in_channels, out_channels, g, number_of_kernels_per_marker, use_random_kernels) ==
    [images |-> images, markers |-> markers, in_channels |-> in_channels,
     out_channels |-> out_channels, kernel_size |-> g.kernel_size, dilation |-> g.dilation,
     number_of_kernels_per_marker |-> number_of_kernels_per_marker,
     use_random_kernels |-> use_random_kernels]

WeightsCalls ==
    \* from markers
    {WeightsCall(Batch(1, <<3, 3>>, InputChannels(c[2])), PyList(<<m>>), c[1], out, g, n, FALSE) :
        c \in {<<2, 2>>, <<1, 1>>, <<1, 2>>}, m \in SynthesisMaps, out \in RequestedChannels,
        g \in SynthesisGeometry, n \in KernelsPerMarker}
    \cup
    \* two images
    {WeightsCall(Batch(2, <<3, 3>>, InputChannels(2)), PyList(<<m1, m2>>), 2, out, g, PyInt(9), FALSE) :
        m1 \in {MarkedPrefix(5, 1, 2)},
        m2 \in {EmptyMap, MarkedPrefix(0, 1, 1), MarkedPrefix(2, 1, 2), MarkedPrefix(2, MaxLabel, 1)},
        out \in RequestedChannels,
        g \in SynthesisGeometry}
    \cup
    \* random kernels, with or without images and markers
    {WeightsCall(im[1], im[2], c, out, g, PyInt(1), random) :
        im \in {<<None, None>>, <<Batch(1, <<3, 3>>, InputChannels(2)), None>>,
                <<Batch(1, <<3, 3>>, InputChannels(2)), PyList(<<MarkedPrefix(5, 1, 2)>>)>>},
        c \in {1, 2}, out \in RequestedChannels, g \in SynthesisGeometry, random \in BOOLEAN}

InitWeights ==
    /\ pc = "weights"
    /\ call \in WeightsCalls
    /\ ret = None
    /\ IdleCreator

InitializeConvNdWeights ==
    /\ pc = "weights"
    /\ ret' \in _initialize_convNd_weights(call.images, call.markers, call.in_channels,
                                           call.out_channels, call.kernel_size, call.dilation,
                                           call.number_of_kernels_per_marker,
                                           call.use_random_kernels)
    /\ pc' = "initialized"
    /\ UNCHANGED <<call, creatorVars, stack>>

NextWeights == InitializeConvNdWeights

SpecWeights == InitWeights /\ [][NextWeights]_vars

(***************************************************************************)
(* Claims about kernel synthesis                                           *)
(***************************************************************************)
MarkerPath(c) == ~c.use_random_kernels /\ ~IsNone(c.images) /\ ~IsNone(c.markers)

\* the arrays of kernels the markers of the call give before any reduction
GeneratedKernels(c) ==
    {w \in _calculate_convNd_weights(c.images, c.markers.list, c.in_channels, c.kernel_size,
                                      c.dilation, c.number_of_kernels_per_marker.int) :
        ~Failed(w)}

\* C4: on the marker path, when more kernels are generated than out_channels asks for,
\* the returned array has exactly out_channels kernels: principal components when a
\* flattened kernel has more than out_channels entries, and otherwise the centres of a
\* clustering of the kernels under one label.
C4_ReducedToOutChannels ==
    (pc = "initialized" /\ ~Failed(ret) /\ MarkerPath(call) /\ ~IsNone(call.out_channels)) =>
        \A w \in GeneratedKernels(call) :
            Len(w.kernels) > call.out_channels.int =>
                /\ Len(ret.kernels) = call.out_channels.int
                /\ \A k \in DOMAIN ret.kernels :
                      ret.kernels[k].kind = IF Product(w.shape) > call.out_channels.int
                                            THEN "pca" ELSE "center"

\* nine kernels of eight entries each reduced to eight centres
C4_Witness ==
    /\ pc = "initialized"
    /\ ~Failed(ret)
    /\ MarkerPath(call)
    /\ ~IsNone(call.out_channels)
    /\ \E w \in GeneratedKernels(call) :
          /\ Len(w.kernels) > call.out_channels.int
          /\ Product(w.shape) <= call.out_channels.int
    /\ Len(ret.kernels) = call.out_channels.int
    /\ \A k \in DOMAIN ret.kernels : ret.kernels[k].kind = "center"

\* more kernels than requested, each with more entries than requested: components
C4_WitnessPca ==
    /\ pc = "initialized"
    /\ ~Failed(ret)
    /\ MarkerPath(call)
    /\ ~IsNone(call.out_channels)
    /\ \E w \in GeneratedKernels(call) :
          /\ Len(w.kernels) > call.out_channels.int
          /\ Product(w.shape) > call.out_channels.int
    /\ Len(ret.kernels) = call.out_channels.int
    /\ \A k \in DOMAIN ret.kernels : ret.kernels[k].kind = "pca"

\* C6: every kernel the marker path returns has L2 norm 1, also after the reduction
\* to out_channels by principal components or by clustering the kernels.
C6_UnitNorm ==
    (pc = "initialized" /\ ~Failed(ret) /\ MarkerPath(call)) =>
        \A k \in DOMAIN ret.kernels : ret.kernels[k].unit

(***************************************************************************)
(* The convolution branch of _build_module (lines 377-454)                 *)
(***************************************************************************)
Get(d, key, default) == IF key \in DOMAIN d THEN d[key] ELSE default

MarkerValues(markers) ==
    UNION {{markers[i].val[c] : c \in DOMAIN markers[i].val} : i \in DOMAIN markers}

\* np.array(markers).max()
MarkersMax(markers) == Max(MarkerValues(markers))

\* math.ceil(a / b), b > 0
CeilDiv(a, b) == (a + b - 1) \div b

\* a plausible slip: the check of line 433 left out
WeightsCountOkAlways(kernels, out_channels) == TRUE

\* line 433: weights.shape[0] == out_channels
WeightsCountOk(kernels, out_channels) == kernels = out_channels

\* torch's _pair / _triple: an int repeated, a list as it is
AsTuple(v, n) == AsList(v, n)

\* lines 438-450: the layer constructed and given the weights
NewConvLayer(op, in_channels, out_channels, kernel_size, stride, padding, dilation, groups, bias, padding_mode, weights) ==
    LET rank == IF Is3dOperation(op) THEN 3 ELSE 2
    IN IF groups < 1 \/ in_channels % groups # 0 \/ out_channels % groups # 0
       THEN Failure("ValueError: channels must be divisible by groups")
       ELSE IF padding_mode \notin {"zeros", "reflect", "replicate", "circular"}
       THEN Failure("ValueError: padding_mode")
       ELSE [operation |-> op,
             in_channels |-> in_channels,
             out_channels |-> out_channels,
             kernel_size |-> kernel_size,
             stride |-> AsTuple(stride, rank),
             padding |-> padding,
             dilation |-> dilation,
             groups |-> groups,
             bias |-> bias,
             padding_mode |-> padding_mode,
             weight |-> weights.kernels,
             weight_shape |-> weights.shape]

\* lines 416-452 once the kernels per marker are known; the result is the set of
\* outcomes: a failure, or the layer with the weights synthesis returned
ConvFromWeights(key, op, operation_params, images, markers, state_dict, in_channels, number_of_kernels_per_marker, remove_similar_filters, similarity_level) ==
    LET rank == IF Is3dOperation(op) THEN 3 ELSE 2
        kernel_size == AsList(operation_params.kernel_size, rank)
        padding == AsList(Get(operation_params, "padding", PyInt(0)), rank)
        dilation == AsList(Get(operation_params, "dilation", PyInt(0)), rank)
        saved == "feature_extractor." \o key \o ".weight"
        resume == (IsNone(images) \/ IsNone(markers)) /\ ~IsNone(state_dict)
        out_channels == IF resume
                        THEN PyInt(state_dict.dict[saved].size[1])
                        ELSE Get(operation_params, "out_channels", None)
        Built(weights) ==
            IF Failed(weights) THEN {weights}
            ELSE IF ~IsNone(out_channels) /\ ~WeightsCountOk(Len(weights.kernels), out_channels.int)
            THEN {Failure("AssertionError: Weights with this shape is not correct.")}
            ELSE LET layer == NewConvLayer(op, in_channels,
                                           IF IsNone(out_channels) THEN Len(weights.kernels)
                                           ELSE out_channels.int,
                                           kernel_size,
                                           Get(operation_params, "stride", PyInt(0)),
                                           padding, dilation,
                                           Get(operation_params, "groups", 1),
                                           Get(operation_params, "bias", FALSE),
                                           Get(operation_params, "padding_mode", "zeros"),
                                           weights)
                     final == IF Failed(layer) THEN {layer}
                              ELSE IF remove_similar_filters
                              THEN RemoveSimilarFiltersOf(layer, similarity_level)
                              ELSE {layer}
                 IN {IF Failed(l) THEN l
                     ELSE [layer |-> l,
                           weights |-> weights,
                           last_conv_layer_out_channels |-> l.out_channels] : l \in final}
    IN IF resume /\ saved \notin DOMAIN state_dict.dict
       THEN {Failure("KeyError: " \o saved)}
       ELSE UNION {Built(w) :
                     w \in _initialize_convNd_weights(
                               images, markers, in_channels, out_channels, kernel_size,
                               dilation, number_of_kernels_per_marker,
                               Get(operation_params, "use_random_kernels", FALSE))}

\* lines 381 and 410-411: the kernels per marker the branch goes on with, where line 411
\* can be evaluated
KernelsPerMarkerOf(operation_params, markers) ==
    IF ~IsNone(markers) /\ "number_of_kernels_per_marker" \notin DOMAIN operation_params
    THEN PyInt(CeilDiv(operation_params.out_channels.int, MarkersMax(markers.list)))
    ELSE Get(operation_params, "number_of_kernels_per_marker", None)

\* images is None or a batch, markers None or a PyList of marker maps, state_dict None
\* or [dict |-> name -> [size |-> shape]]
ConvBranch(key, layer_config, images, markers, state_dict, last_conv_layer_out_channels, remove_similar_filters, similarity_level) ==
    LET op == layer_config.operation
        operation_params == layer_config.params
    IN IF "kernel_size" \notin DOMAIN operation_params
       THEN {Failure("KeyError: 'kernel_size'")}
       ELSE IF "out_channels" \notin DOMAIN operation_params /\ IsNone(markers)
       THEN {Failure("AssertionError: out_channels or markers must be defined.")}
       ELSE IF /\ ~IsNone(markers)
               /\ "number_of_kernels_per_marker" \notin DOMAIN operation_params
               /\ "out_channels" \notin DOMAIN operation_params
       THEN {Failure("KeyError: 'out_channels'")}
       ELSE IF /\ ~IsNone(markers)
               /\ "number_of_kernels_per_marker" \notin DOMAIN operation_params
               /\ (MarkerValues(markers.list) = {} \/ MarkersMax(markers.list) = 0)
       THEN {Failure("ValueError or OverflowError: no marker to divide by")}
       ELSE ConvFromWeights(key, op, operation_params, images, markers, state_dict,
                            last_conv_layer_out_channels,
                            KernelsPerMarkerOf(operation_params, markers),
                            remove_similar_filters, similarity_level)

(***************************************************************************)
(* Convolution leaves the branch is run on                                 *)
(***************************************************************************)
Optional(key, values) == {EmptyDict} \cup {key :> v : v \in values}

ConvParams ==
    {("kernel_size" :> ks) @@ out @@ n @@ geometry @@ random :
        ks \in {PyInt(2), PyList(<<3, 3>>), PyInt(1)},
        out \in Optional("out_channels", {PyInt(v) : v \in {1, 2, 8, 9, 12}}),
        n \in Optional("number_of_kernels_per_marker", {PyInt(1), PyInt(9)}),
        geometry \in {EmptyDict,
                      ("stride" :> PyInt(1)) @@ ("padding" :> PyInt(1)) @@ ("dilation" :> PyInt(1))},
        random \in Optional("use_random_kernels", {TRUE})}
    \cup
    {("out_channels" :> PyInt(2)) @@ extra :
        extra \in {EmptyDict,
                   ("kernel_size" :> PyInt(2)) @@ ("groups" :> 2),
                   ("kernel_size" :> PyInt(2)) @@ ("groups" :> 3),
                   ("kernel_size" :> PyInt(2)) @@ ("bias" :> TRUE),
                   ("kernel_size" :> PyInt(2)) @@ ("padding_mode" :> "same")}}

ConvLeaf(op, params) == [operation |-> op, params |-> params]

StateDict(name, size) == [dict |-> (name :> [size |-> size])]

ConvCall(layer_config, images, markers, state_dict, remove_similar_filters, similarity_level) ==
    [key |-> "conv1", layer_config |-> layer_config, images |-> images, markers |-> markers,
     state_dict |-> state_dict,
     last_conv_layer_out_channels |-> IF IsNone(images) THEN 2 ELSE Len(images.channels),
     remove_similar_filters |-> remove_similar_filters,
     similarity_level |-> similarity_level]

ConvCalls ==
    {ConvCall(ConvLeaf("conv2d", params), Batch(1, <<3, 3>>, InputChannels(2)), PyList(<<m>>),
              None, FALSE, 20) :
        params \in ConvParams, m \in SynthesisMaps}
    \cup
    {ConvCall(ConvLeaf("conv2d", params), data[1], data[2], data[3], FALSE, 20) :
        params \in ConvParams,
        data \in {<<None, None, None>>,
                  <<Batch(1, <<3, 3>>, InputChannels(2)), None, None>>,
                  <<None, None, StateDict("feature_extractor.conv1.weight", <<4, 2, 2, 2>>)>>,
                  <<None, None, StateDict("feature_extractor.conv2.weight", <<4, 2, 2, 2>>)>>}}
    \cup
    {ConvCall(ConvLeaf(op, ("kernel_size" :> PyInt(2)) @@ ("out_channels" :> PyInt(out))
                           @@ ("number_of_kernels_per_marker" :> PyInt(9))
                           @@ ("stride" :> PyInt(1)) @@ ("dilation" :> PyInt(1))),
              data[1], data[2], None, remove, level) :
        op \in {"conv2d", "conv3d"}, out \in {2, 3, 5},
        data \in {<<Batch(1, <<3, 3>>, InputChannels(2)), PyList(<<MarkedPrefix(5, 1, 2)>>)>>,
                  <<Batch(1, <<2, 2, 2>>, InputChannels(2)), PyList(<<Markers3d>>)>>},
        remove \in BOOLEAN, level \in {0, 20, 25}}

InitConv ==
    /\ pc = "conv"
    /\ call \in ConvCalls
    /\ ret = None
    /\ IdleCreator

BuildConv ==
    /\ pc = "conv"
    /\ ret' \in ConvBranch(call.key, call.layer_config, call.images, call.markers,
                           call.state_dict, call.last_conv_layer_out_channels,
                           call.remove_similar_filters, call.similarity_level)
    /\ pc' = "conv_built"
    /\ UNCHANGED <<call, creatorVars, stack>>

NextConv == BuildConv

SpecConv == InitConv /\ [][NextConv]_vars

(***************************************************************************)
(* Claims about the convolution branch                                     *)
(***************************************************************************)
\* out_channels is given in the leaf's params and not overridden by saved weights
Requested(c) ==
    /\ "out_channels" \in DOMAIN c.layer_config.params
    /\ ~((IsNone(c.images) \/ IsNone(c.markers)) /\ ~IsNone(c.state_dict))

UsesRandomKernels(c) == Get(c.layer_config.params, "use_random_kernels", FALSE)

\* the marked pixels inside the image, over all images, by marker value
MarkedPixels(c, value) ==
    {<<i, x>> \in UNION {{<<j, y>> : y \in DOMAIN c.markers.list[j].val} :
                            j \in DOMAIN c.markers.list} :
        /\ c.markers.list[i].val[x] = value
        /\ \A a \in DOMAIN x : x[a] < c.images.shape[a]}

\* the kernels clustering can give: per marker value, the marked pixels but at most
\* the clusters per label
KernelsFromMarkers(c) ==
    LET params == c.layer_config.params
        values == MarkerValues(c.markers.list) \ {0}
        n == IF "number_of_kernels_per_marker" \in DOMAIN params
             THEN params.number_of_kernels_per_marker.int
             ELSE CeilDiv(params.out_channels.int, Max(values))
        RECURSIVE Sum(_)
        Sum(V) == IF V = {} THEN 0
                  ELSE LET v == Min(V)
                       IN Min({Cardinality(MarkedPixels(c, v)), n}) + Sum(V \ {v})
    IN Sum(values)

\* the entries of one kernel
KernelEntries(c) ==
    LET ks == c.layer_config.params.kernel_size
    IN c.last_conv_layer_out_channels * (IF IsInt(ks) THEN ks.int * ks.int ELSE Product(ks.list))

FewerThanRequested(c) ==
    /\ Requested(c)
    /\ "kernel_size" \in DOMAIN c.layer_config.params
    /\ IF UsesRandomKernels(c)
       THEN KernelEntries(c) < c.layer_config.params.out_channels.int
       ELSE /\ ~IsNone(c.images) /\ ~IsNone(c.markers)
            /\ MarkerValues(c.markers.list) \ {0} # {}
            /\ KernelsFromMarkers(c) < c.layer_config.params.out_channels.int

\* C5: when out_channels is requested and synthesis gives fewer kernels (the markers
\* give fewer clusters, or random kernels have fewer entries than out_channels allows
\* components), building the convolution fails; a convolution that is built was given
\* exactly out_channels synthesised kernels.
C5_FewerKernelsFail ==
    (pc = "conv_built") =>
        /\ FewerThanRequested(call) => Failed(ret)
        /\ (Requested(call) /\ ~Failed(ret)) =>
              Len(ret.weights.kernels) = call.layer_config.params.out_channels.int

\* five marked pixels, nine kernels requested
C5_Witness ==
    /\ pc = "conv_built"
    /\ FewerThanRequested(call)
    /\ ~UsesRandomKernels(call)
    /\ KernelsFromMarkers(call) > 1
    /\ Failed(ret)
    /\ ret.error = "AssertionError: Not enough kernels were generated!!!"

(***************************************************************************)
(* The module walk: LCNCreator._build_module                               *)
(*                                                                         *)
(* The stack holds, from the bottom, the frame of build_model or           *)
(* load_model and one frame per active call of _build_module.  A module    *)
(* frame refers to its configuration by `path`, the positions that lead to *)
(* it in the architecture, since the configuration dicts are shared with   *)
(* the architecture and changed in place.  Its output_shape is a PyList,   *)
(* or Aliased when it is the very array kept in _input_shape (images is    *)
(* None), which is then changed in place as well.  The channels of a batch *)
(* that a layer produced are tagged with the layer's qualified name.       *)
(***************************************************************************)
Operations == {"max_pool2d", "max_pool3d", "avg_pool2d", "avg_pool3d", "conv2d", "conv3d",
               "relu", "linear", "marker_based_norm", "m_norm2d", "m_norm3d", "batch_norm2d",
               "batch_norm3d", "dropout", "adap_avg_pool3d", "unfold", "fold", "decoder"}

Aliased == [alias |-> "_input_shape"]
IsAliased(shape) == "alias" \in DOMAIN shape

Top == stack[Len(stack)]
IsModuleFrame(frame) == "path" \in DOMAIN frame

RECURSIVE ModuleAt(_, _)
\* the configuration of the module the path leads to
ModuleAt(layers, path) ==
    IF Len(path) = 1 THEN layers[path[1]].cfg
    ELSE ModuleAt(layers[path[1]].cfg.layers, Tail(path))

RECURSIVE WithParams(_, _, _)
\* the architecture after layer_config['params'] of the leaf at `path` was changed in place
WithParams(layers, path, params) ==
    IF Len(path) = 1 THEN [layers EXCEPT ![path[1]].cfg.params = params]
    ELSE [layers EXCEPT ![path[1]].cfg.layers = WithParams(@, Tail(path), params)]

\* the array the frame's output_shape names
ShapeOf(frame) == IF IsAliased(frame.output_shape) THEN _input_shape.list
                  ELSE frame.output_shape.list

RECURSIVE Flatten(_)
Flatten(lists) == IF Len(lists) = 0 THEN <<>> ELSE Head(lists) \o Flatten(Tail(lists))

\* a plausible slip: the cached outputs put in front of the current batch
ConcatenateCachedFirst(current, cached) == Flatten(cached) \o current

\* np.concatenate([images, *cached], axis=-1), the channel axis
ConcatenateChannels(current, cached) == current \o Flatten(cached)

\* a plausible slip: the names that are not cached are passed over
CachedOutputsPresent(inputs_names) ==
    LET present == SelectSeq(inputs_names, LAMBDA name : name \in DOMAIN _outputs)
    IN [cached |-> [k \in DOMAIN present |-> _outputs[present[k]]]]

\* line 327: [self._outputs[name] for name in inputs_names]
CachedOutputs(inputs_names) ==
    IF \E k \in DOMAIN inputs_names : inputs_names[k] \notin DOMAIN _outputs
    THEN Failure("KeyError: " \o inputs_names[
                     Min({k \in DOMAIN inputs_names : inputs_names[k] \notin DOMAIN _outputs})])
    ELSE [cached |-> [k \in DOMAIN inputs_names |-> _outputs[inputs_names[k]]]]

\* lines 322-329: what images, output_shape and last_conv_layer_out_channels are after
\* the skip connections of the entry were gathered
SkipConcat(frame, new_module_name) ==
    IF new_module_name \notin DOMAIN skips
    THEN [images |-> frame.images,
          output_shape |-> frame.output_shape,
          last_conv_layer_out_channels |-> frame.last_conv_layer_out_channels]
    ELSE LET found == CachedOutputs(skips[new_module_name])
             images == frame.images
         IN IF Failed(found) THEN found
            ELSE IF IsNone(images) \/ \E k \in DOMAIN found.cached : IsNone(found.cached[k])
            THEN Failure("ValueError: zero-dimensional arrays cannot be concatenated")
            ELSE IF \E k \in DOMAIN found.cached :
                        \/ found.cached[k].n # images.n
                        \/ found.cached[k].shape # images.shape
            THEN Failure("ValueError: all the input array dimensions except for the concatenation axis must match exactly")
            ELSE LET joined == Batch(images.n, images.shape,
                                     ConcatenateChannels(
                                         images.channels,
                                         [k \in DOMAIN found.cached |->
                                             found.cached[k].channels]))
                 IN [images |-> joined,
                     output_shape |-> PyList(ImageShape(joined)),
                     last_conv_layer_out_channels |-> Len(joined.channels)]

\* the channels a layer called `name` puts out
OutputChannels(name, c) == [i \in 1..c |-> <<name, i>>]

\* torch's convolution output size, one axis
ConvOutputSize(size, pad, dilation, k, stride) ==
    ((size + 2 * pad - dilation * (k - 1) - 1) \div stride) + 1

\* the spatial shape a convolution gives for images of the given spatial shape; in three
\* dimensions torch_images is (N, C, W, D, H) and the outputs come back as (N, D, H, W, C)
ConvOutputShape(layer, shape) ==
    LET At(size, a) == ConvOutputSize(size, layer.padding[a], layer.dilation[a],
                                      layer.kernel_size[a], layer.stride[a])
    IN IF Len(shape) = 2 THEN <<At(shape[1], 1), At(shape[2], 2)>>
       ELSE <<At(shape[1], 2), At(shape[2], 3), At(shape[3], 1)>>

\* lines 640-664 for a convolution: the outcomes of replaying the batch through it
ConvForward(name, layer, images) ==
    LET rank == Len(images.shape)
        tuples == {layer.kernel_size, layer.stride, layer.padding, layer.dilation}
    IN IF \/ \E t \in tuples : Len(t) # rank
          \/ rank # (IF layer.operation = "conv3d" THEN 3 ELSE 2)
          \/ Len(images.channels) # layer.in_channels
          \/ layer.weight_shape # <<layer.in_channels \div layer.groups>> \o layer.kernel_size
       THEN {Failure("RuntimeError: the input or the weight does not fit the convolution")}
       ELSE IF \E a \in 1..rank : layer.stride[a] < 1
       THEN {Failure("RuntimeError: non-positive stride is not supported")}
       ELSE IF \E a \in 1..rank : ConvOutputShape(layer, images.shape)[a] < 1
       THEN {Failure("RuntimeError: output size is too small")}
       ELSE LET outputs == Batch(images.n, ConvOutputShape(layer, images.shape),
                                 OutputChannels(name, layer.out_channels))
            IN IF \E a \in 1..rank : layer.dilation[a] < 1
               THEN \* torch may reject a dilation of 0 or run it as a dilation-free window
                    {Failure("RuntimeError: dilation should be greater than zero"), outputs}
               ELSE {outputs}

\* a plausible slip: every output is kept
SaveOutputAlways(outputs, name, images) == DictSet(outputs, name, images)

\* lines 170-171, 367-368, 665-666: if name in self._to_save_outputs:
\* self._outputs[name] = images
SaveOutput(outputs, name, images) ==
    IF name \in to_save_outputs THEN DictSet(outputs, name, images) ELSE outputs

PoolOperationNames == {"max_pool2d", "avg_pool2d", "max_pool3d", "avg_pool3d"}
ConvOperationNames == {"conv2d", "conv3d"}
\* the operations built by the last branch, layer = operation(**operation_params), that
\* keep the shape of what they are given
PlainOperationNames == {"relu", "dropout"}

\* line 648: the operations whose layer the batch is not replayed through
SkipsReplay(op) == op = "unfold" \/ op \in PoolOperationNames \/ op = "linear"

\* lines 640-667: the batch replayed through the layer just built and cached if some
\* layer takes it as input; the result is the set of [images, outputs] outcomes
Replayed(new_module_name, op, layer, images, markers) ==
    IF IsNone(images) \/ IsNone(markers) \/ SkipsReplay(op)
    THEN {[images |-> images, outputs |-> _outputs]}
    ELSE LET forward == IF op \in ConvOperationNames
                        THEN ConvForward(new_module_name, layer, images)
                        ELSE {Batch(images.n, images.shape,
                                    OutputChannels(new_module_name, Len(images.channels)))}
         IN {IF Failed(out) THEN out
             ELSE [images |-> out,
                   outputs |-> SaveOutput(_outputs, new_module_name, out)] : out \in forward}

NormOperationNames == {"marker_based_norm", "m_norm2d", "m_norm3d"}
BatchNormOperationNames == {"batch_norm2d", "batch_norm3d"}

\* lines 456-498: the layer of a marker-based normalisation leaf, or the error raised;
\* epsilon is bound at line 470 only, where images and markers are given
MarkerNormBranch(layer_config, images, markers, last_conv_layer_out_channels) ==
    LET op == layer_config.operation
        operation_params == layer_config.params
        rank == IF Is3dOperation(op) THEN 3 ELSE 2
    IN IF IsNone(images) \/ IsNone(markers)
       THEN \* mean = None, std = None, and line 498 reads epsilon
            Failure("UnboundLocalError: local variable 'epsilon' referenced before assignment")
       ELSE IF "kernel_size" \notin DOMAIN operation_params
       THEN Failure("KeyError: 'kernel_size'")
       ELSE LET kernel_size == AsList(operation_params.kernel_size, rank)
                dilation == AsList(Get(operation_params, "dilation", PyInt(0)), rank)
                generated == _generate_patches(images, markers.list,
                                               last_conv_layer_out_channels,
                                               kernel_size, dilation)
            IN IF Failed(generated) THEN generated
               ELSE IF Len(generated.shape) < rank + 1
               THEN Failure("AxisError: axis is out of bounds for array")
               ELSE LET \* patches.mean(axis=axis, keepdims=True) viewed as (1, -1, 1, 1)
                        statistics == [size |-> Product(SubSeq(generated.shape, rank + 2,
                                                               Len(generated.shape)))]
                    IN [operation |-> op,
                        mean |-> statistics,
                        std |-> statistics,
                        in_channels |-> last_conv_layer_out_channels,
                        epsilon |-> Get(operation_params, "epsilon", PyInt(1))]

\* lines 500-520: the batch-statistics layer, in training mode while the batch is passed
\* through it and in evaluation mode when the branch ends
BatchNormBranch(layer_config, images, markers, last_conv_layer_out_channels) ==
    LET calibrated == ~IsNone(images) /\ ~IsNone(markers)
    IN IF calibrated /\ Len(images.channels) # last_conv_layer_out_channels
       THEN Failure("RuntimeError: running_mean should contain as many elements as the input has channels")
       ELSE [operation |-> layer_config.operation,
             num_features |-> last_conv_layer_out_channels,
             seen_in_training |-> IF calibrated THEN images.n ELSE 0,
             training |-> FALSE]

\* lines 617-634: the linear layer with the children added before it and the params the
\* branch leaves in the leaf, or the error raised
LinearBranch(key, operation_params, state_dict) ==
    IF "in_features" \notin DOMAIN operation_params
    THEN Failure("KeyError: 'in_features'")
    ELSE LET flattened == operation_params.in_features = PyInt(-1)
             saved == "classifier." \o key \o "._linear.weight"
             sized == IF flattened
                      THEN DictSet(operation_params, "in_features",
                                   PyInt(Product(IF IsAliased(_output_shape)
                                                 THEN _input_shape.list
                                                 ELSE _output_shape.list)))
                      ELSE operation_params
             final == IF IsNone(state_dict) THEN sized
                      ELSE DictSet(DictSet(sized, "in_features",
                                           PyInt(state_dict.dict[saved].size[2])),
                                   "out_features", PyInt(state_dict.dict[saved].size[1]))
         IN IF flattened /\ IsNone(_output_shape)
            THEN Failure("AttributeError: 'LCNCreator' object has no attribute '_output_shape'")
            ELSE IF ~IsNone(state_dict) /\ saved \notin DOMAIN state_dict.dict
            THEN Failure("KeyError: " \o saved)
            ELSE IF "out_features" \notin DOMAIN final
            THEN Failure("TypeError: __init__() missing 1 required positional argument: 'out_features'")
            ELSE [layer |-> [operation |-> "linear", params |-> final],
                  operation_params |-> final,
                  added |-> IF flattened
                            THEN <<[name |-> "flatten", layer |-> [operation |-> "flatten"]]>>
                            ELSE <<>>]

\* line 667, layer.train(), for the layers whose mode is tracked
Trained(layer) ==
    IF "training" \in DOMAIN layer THEN [layer EXCEPT !.training = TRUE] ELSE layer

\* the operation branch of a leaf (lines 373-638): the set of outcomes, each a failure or
\* the layer with what the branch leaves in images, in the array output_shape names, in
\* last_conv_layer_out_channels and in the leaf's params
OperationBranch(frame, key, layer_config, images, output_shape, last_conv_layer_out_channels) ==
    LET op == layer_config.operation
        shape == IF IsAliased(output_shape) THEN _input_shape.list ELSE output_shape.list
        operation_params == layer_config.params
        LeftAfter(added, layer, new_images, new_shape, out_channels, params) ==
            [layer |-> layer, images |-> new_images, shape |-> new_shape,
             last_conv_layer_out_channels |-> out_channels, operation_params |-> params,
             added |-> added]
        Left(layer, new_images, new_shape, out_channels, params) ==
            LeftAfter(<<>>, layer, new_images, new_shape, out_channels, params)
        Single(layer) ==
            IF Failed(layer) THEN {layer}
            ELSE {Left(layer, images, shape, last_conv_layer_out_channels, operation_params)}
    IN IF op \in ConvOperationNames
       THEN {IF Failed(built) THEN built
             ELSE Left(built.layer, images, shape, built.last_conv_layer_out_channels,
                       operation_params) :
                built \in ConvBranch(key, layer_config, images, frame.markers, frame.state_dict,
                                     last_conv_layer_out_channels,
                                     call.remove_similar_filters, call.similarity_level)}
       ELSE IF op \in PoolOperationNames
       THEN IF "stride" \notin DOMAIN operation_params
            THEN {Failure("KeyError: 'stride'")}
            ELSE IF "kernel_size" \notin DOMAIN operation_params
            THEN {Failure("KeyError: 'kernel_size'")}
            ELSE IF IsAliased(output_shape) /\ _input_shape.kind = "list"
            THEN \* line 540, output_shape.shape
                 {Failure("AttributeError: 'list' object has no attribute 'shape'")}
            ELSE LET pooled == PoolBranch(layer_config, shape, images, frame.markers)
                 IN {Left(pooled.layer, pooled.images, pooled.output_shape,
                          last_conv_layer_out_channels, pooled.operation_params)}
       ELSE IF op \in NormOperationNames
       THEN Single(MarkerNormBranch(layer_config, images, frame.markers,
                                    last_conv_layer_out_channels))
       ELSE IF op \in BatchNormOperationNames
       THEN Single(BatchNormBranch(layer_config, images, frame.markers,
                                   last_conv_layer_out_channels))
       ELSE IF op = "linear"
       THEN LET linear == LinearBranch(key, operation_params, frame.state_dict)
            IN IF Failed(linear) THEN {linear}
               ELSE {LeftAfter(linear.added, linear.layer, images, shape,
                               last_conv_layer_out_channels, linear.operation_params)}
       ELSE {Left([operation |-> op, params |-> operation_params], images, shape,
                  last_conv_layer_out_channels, operation_params)}

\* a plausible slip: a leaf without params is given empty params
AssertParamsDefaulted(params) ==
    IF "operation" \notin DOMAIN params
    THEN Failure("AssertionError: Layer does not have an operation.")
    ELSE [k \in DOMAIN params \cup {"params"} |->
             IF k \in DOMAIN params THEN params[k] ELSE EmptyDict]

\* lines 746-750: the layer configuration, which passes as it is, or the error raised
_assert_params(params) ==
    IF "operation" \notin DOMAIN params
    THEN Failure("AssertionError: Layer does not have an operation.")
    ELSE IF "params" \notin DOMAIN params
    THEN Failure("AssertionError: Layer does not have operation params.")
    ELSE params

\* one leaf entry of the loop of _build_module (lines 322-668): the set of outcomes, each a
\* failure or what the frame, _outputs, _input_shape and the architecture are afterwards
LeafStep(frame, key, entry_config) ==
    LET new_module_name == QualifiedName(frame.module_name, key)
        gathered == SkipConcat(frame, new_module_name)
        layer_config == _assert_params(entry_config)
    IN IF Failed(gathered) THEN {gathered}
       ELSE IF Failed(layer_config) THEN {layer_config}
       ELSE IF layer_config.operation \notin Operations
       THEN {Failure("KeyError: " \o layer_config.operation)}
       ELSE LET After(left) ==
                    {IF Failed(replayed) THEN replayed
                     ELSE [frame |->
                              [frame EXCEPT
                                  !.i = @ + 1,
                                  !.images = replayed.images,
                                  !.output_shape = IF IsAliased(gathered.output_shape)
                                                   THEN Aliased ELSE PyList(left.shape),
                                  !.last_conv_layer_out_channels = left.last_conv_layer_out_channels,
                                  !.module = @ \o left.added
                                               \o <<[name |-> key, layer |-> Trained(left.layer)]>>,
                                  !.fed = [name |-> new_module_name,
                                           images |-> gathered.images,
                                           tracked |-> gathered.last_conv_layer_out_channels]],
                           outputs |-> replayed.outputs,
                           input_shape |-> IF IsAliased(gathered.output_shape)
                                           THEN [_input_shape EXCEPT !.list = left.shape]
                                           ELSE _input_shape,
                           operation_params |-> left.operation_params] :
                        replayed \in Replayed(new_module_name, layer_config.operation,
                                              left.layer, left.images, frame.markers)}
            IN UNION {IF Failed(left) THEN {left} ELSE After(left) :
                         left \in OperationBranch(frame, key, layer_config, gathered.images,
                                                  gathered.output_shape,
                                                  gathered.last_conv_layer_out_channels)}

(***************************************************************************)
(* build_model, load_model and the calls of _build_module, step by step    *)
(***************************************************************************)
Running == {"build_model", "load_model"}

\* an exception leaves the method: nothing is caught
Raise(failure) ==
    /\ pc' = "failed"
    /\ ret' = failure
    /\ stack' = <<>>

\* lines 306-320: the locals of _build_module when its loop starts
NewFrame(module_name, path, module_arch, images, markers, state_dict) ==
    LET output_shape == IF IsNone(images) THEN Aliased ELSE PyList(ImageShape(images))
        last_conv_layer_out_channels ==
            IF IsNone(images) THEN _input_shape.list[Len(_input_shape.list)]
            ELSE Len(images.channels)
    IN [module_name |-> module_name,
        path |-> path,
        module_type |-> Get(module_arch, "type", "sequential"),
        i |-> 1,
        images |-> images,
        markers |-> markers,
        state_dict |-> state_dict,
        output_shape |-> output_shape,
        last_conv_layer_out_channels |-> last_conv_layer_out_channels,
        module |-> <<>>,
        \* what the call was entered with
        entered |-> [images |-> images,
                     last_conv_layer_out_channels |-> last_conv_layer_out_channels],
        fed |-> [name |-> module_name, images |-> images,
                 tracked |-> last_conv_layer_out_channels]]

LayersOf(frame) == ModuleAt(architecture, frame.path).layers

\* two positions of a map are neighbours along one axis
Adjacent(x, y) ==
    \E a \in DOMAIN x : /\ x[a] - y[a] \in {-1, 1}
                        /\ \A b \in DOMAIN x \ {a} : x[b] = y[b]

RECURSIVE ComponentFrom(_, _)
\* the marked positions connected to those of S through neighbours of the same label
ComponentFrom(map, S) ==
    LET more == S \cup {y \in DOMAIN map.val :
                           /\ map.val[y] # 0
                           /\ \E x \in S : Adjacent(x, y) /\ map.val[x] = map.val[y]}
    IN IF more = S THEN S ELSE ComponentFrom(map, more)

\* utils.label_connected_components, whose code is not part of the sources: every
\* connected component of a label takes a label of its own, counted from start_label in
\* scan order, in each map
label_connected_components(markers, start_label) ==
    LET Relabelled(map) ==
            LET order == RowMajor(map.shape)
                Position(x) == CHOOSE k \in DOMAIN order : order[k] = x
                First(x) == Min({Position(y) : y \in ComponentFrom(map, {x})})
                firsts == {First(x) : x \in {y \in DOMAIN map.val : map.val[y] # 0}}
            IN [map EXCEPT !.val = [x \in DOMAIN map.val |->
                                       IF map.val[x] = 0 THEN 0
                                       ELSE start_label
                                            + Cardinality({f \in firsts : f < First(x)})]]
    IN PyList([i \in DOMAIN markers.list |-> Relabelled(markers.list[i])])

\* lines 109-114: self._has_superpixel_markers
HasSuperpixelMarkers == ~IsNone(call.superpixels_markers)

\* line 180: markers += self._superpixel_markers, the one map added to every image's
SuperpixelsAdded(markers) ==
    PyList([i \in DOMAIN markers.list |->
               [markers.list[i] EXCEPT
                   !.val = [x \in DOMAIN @ |-> @[x] + call.superpixels_markers.val[x]]]])

AtEntry(frame) == frame.i <= Len(LayersOf(frame))

ReplaceTop(frame) == [stack EXCEPT ![Len(stack)] = frame]

\* LCNCreator.build_model is called (lines 163-165)
BuildModel ==
    /\ pc = "constructed"
    /\ call.method = "build_model"
    /\ pc' = "build_model"
    /\ stack' = <<[function |-> "build_model", t |-> 1, markers |-> call.markers,
                   \* the markers each module was built from so far
                   passed |-> <<>>]>>
    /\ UNCHANGED <<call, ret, creatorVars>>

\* one pass of the loop of build_model up to the call of _build_module (lines 167-185);
\* every module is given self._images and what the local markers hold by then
BuildTopModule ==
    /\ pc = "build_model"
    /\ Len(stack) = 1
    /\ Top.t <= Len(architecture)
    /\ _outputs' = SaveOutput(_outputs, "input", call.images)
    /\ LET relabeled == IF call.relabel_markers /\ ~IsNone(Top.markers)
                        THEN label_connected_components(
                                 Top.markers, IF HasSuperpixelMarkers THEN 2 ELSE 1)
                        ELSE Top.markers
           markers == IF HasSuperpixelMarkers /\ ~IsNone(relabeled)
                      THEN SuperpixelsAdded(relabeled)
                      ELSE relabeled
       IN IF HasSuperpixelMarkers /\ IsNone(relabeled)
          THEN /\ Raise(Failure("TypeError: unsupported operand type(s) for +=: 'NoneType' and 'ndarray'"))
               /\ UNCHANGED <<call, architecture, skips, to_save_outputs, _input_shape,
                              _output_shape, LCN>>
          ELSE /\ stack' = <<[Top EXCEPT !.markers = markers, !.passed = Append(@, markers)],
                             NewFrame(architecture[Top.t].key, <<Top.t>>,
                                      architecture[Top.t].cfg, call.images, markers, None)>>
               /\ UNCHANGED <<pc, call, ret, architecture, skips, to_save_outputs,
                              _input_shape, _output_shape, LCN>>

\* the loop of build_model is over (line 188)
FinishBuild ==
    /\ pc = "build_model"
    /\ Len(stack) = 1
    /\ Top.t > Len(architecture)
    /\ pc' = "built"
    /\ stack' = <<>>
    /\ UNCHANGED <<call, ret, creatorVars>>

\* LCNCreator.load_model is called (lines 253-257)
LoadModel ==
    /\ pc = "constructed"
    /\ call.method = "load_model"
    /\ LET features == {t \in DOMAIN architecture : architecture[t].key = "features"}
       IN IF features = {}
          THEN /\ Raise(Failure("KeyError: 'features'"))
               /\ UNCHANGED <<call, creatorVars>>
          ELSE /\ pc' = "load_model"
               /\ stack' = <<[function |-> "load_model"],
                             NewFrame("", <<Max(features)>>, architecture[Max(features)].cfg,
                                      None, None, call.state_dict)>>
               /\ UNCHANGED <<call, ret, creatorVars>>

\* one pass of the loop of _build_module over a leaf (lines 322-332, 371-668)
BuildLayer ==
    /\ pc \in Running
    /\ IsModuleFrame(Top)
    /\ AtEntry(Top)
    /\ "type" \notin DOMAIN LayersOf(Top)[Top.i].cfg
    /\ \E outcome \in LeafStep(Top, LayersOf(Top)[Top.i].key, LayersOf(Top)[Top.i].cfg) :
          IF Failed(outcome)
          THEN /\ Raise(outcome)
               /\ UNCHANGED <<call, creatorVars>>
          ELSE /\ stack' = ReplaceTop(outcome.frame)
               /\ _outputs' = outcome.outputs
               /\ _input_shape' = outcome.input_shape
               /\ architecture' = WithParams(architecture, Top.path \o <<Top.i>>,
                                             outcome.operation_params)
               /\ UNCHANGED <<pc, call, ret, skips, to_save_outputs, _output_shape, LCN>>

\* one pass of the loop over a sub-module, up to the recursive call (lines 322-340)
EnterSubModule ==
    /\ pc \in Running
    /\ IsModuleFrame(Top)
    /\ AtEntry(Top)
    /\ "type" \in DOMAIN LayersOf(Top)[Top.i].cfg
    /\ LET new_module_name == QualifiedName(Top.module_name, LayersOf(Top)[Top.i].key)
           gathered == SkipConcat(Top, new_module_name)
       IN IF Failed(gathered)
          THEN /\ Raise(gathered)
               /\ UNCHANGED <<call, creatorVars>>
          ELSE /\ stack' = Append(ReplaceTop([Top EXCEPT
                                     !.images = gathered.images,
                                     !.output_shape = gathered.output_shape,
                                     !.last_conv_layer_out_channels =
                                         gathered.last_conv_layer_out_channels]),
                                  NewFrame(new_module_name, Top.path \o <<Top.i>>,
                                           LayersOf(Top)[Top.i].cfg, gathered.images,
                                           Top.markers, Top.state_dict))
               /\ UNCHANGED <<pc, call, ret, creatorVars>>

\* line 671: output_shape[-1] = last_conv_layer_out_channels
ChannelsSet(frame) ==
    [ShapeOf(frame) EXCEPT ![Len(ShapeOf(frame))] = frame.last_conv_layer_out_channels]

\* lines 673-675 apply
BorderRemoved(frame) == call.remove_border > 0 /\ Len(ShapeOf(frame)) > 1

\* output_shape names the Python list kept in _input_shape, which takes no -= with an int
SubtractsFromList(frame) ==
    BorderRemoved(frame) /\ IsAliased(frame.output_shape) /\ _input_shape.kind = "list"

\* lines 671-677: the array output_shape names, as _build_module leaves it
FinalShape(frame) ==
    IF BorderRemoved(frame)
    THEN [a \in DOMAIN ShapeOf(frame) |-> ChannelsSet(frame)[a] - 2 * call.remove_border]
    ELSE ChannelsSet(frame)

\* the module a call of _build_module returns
BuiltModule(frame) == [type |-> frame.module_type, children |-> frame.module]

\* lines 341-368: the caller of the recursive call takes what it returned
TakeSubModule(parent, frame) ==
    LET key == LayersOf(parent)[parent.i].key
    IN [parent EXCEPT
           !.i = @ + 1,
           !.last_conv_layer_out_channels = frame.last_conv_layer_out_channels,
           !.images = frame.images,
           !.markers = frame.markers,
           !.module = IF parent.module_type = "parallel"
                      THEN Append(@, [layer |-> BuiltModule(frame)])
                      ELSE Append(@, [name |-> key, layer |-> BuiltModule(frame)])]

\* the loop of _build_module is over: lines 671-679 and what the caller does with the
\* result (lines 341-368 in _build_module, 179-186 in build_model, 256 in load_model)
ReturnModule ==
    /\ pc \in Running
    /\ IsModuleFrame(Top)
    /\ ~AtEntry(Top)
    /\ LET frame == Top
           caller == stack[Len(stack) - 1]
           returned == SubSeq(stack, 1, Len(stack) - 1)
       IN IF SubtractsFromList(frame)
          THEN /\ Raise(Failure("TypeError: unsupported operand type(s) for -=: 'list' and 'int'"))
               /\ _input_shape' = [_input_shape EXCEPT !.list = ChannelsSet(frame)]
               /\ UNCHANGED <<_output_shape, LCN, _outputs>>
          ELSE
          /\ _output_shape' = IF IsAliased(frame.output_shape) THEN Aliased
                              ELSE PyList(FinalShape(frame))
          /\ _input_shape' = IF IsAliased(frame.output_shape)
                             THEN [_input_shape EXCEPT !.list = FinalShape(frame)]
                             ELSE _input_shape
          /\ IF IsModuleFrame(caller)
             THEN /\ stack' = [returned EXCEPT ![Len(returned)] = TakeSubModule(caller, frame)]
                  /\ _outputs' = IF /\ caller.module_type # "parallel"
                                    /\ ~IsNone(frame.images) /\ ~IsNone(frame.markers)
                                 THEN SaveOutput(_outputs, frame.module_name, frame.images)
                                 ELSE _outputs
                  /\ UNCHANGED <<pc, ret, LCN>>
             ELSE IF caller.function = "build_model"
             THEN /\ LCN' = Append(LCN, [name |-> frame.module_name,
                                         module |-> BuiltModule(frame)])
                  /\ stack' = <<[caller EXCEPT !.t = @ + 1]>>
                  /\ UNCHANGED <<pc, ret, _outputs>>
             ELSE \* load_model unpacks the four values returned into two names
                  /\ Raise(Failure("ValueError: too many values to unpack (expected 2)"))
                  /\ UNCHANGED <<LCN, _outputs>>
    /\ UNCHANGED <<call, architecture, skips, to_save_outputs>>

(***************************************************************************)
(* Creators the walk is run on: the architecture with the data handed to   *)
(* the constructor, and the method called on the creator                   *)
(***************************************************************************)
Entry(key, cfg) == [key |-> key, cfg |-> cfg]

Unit == ("stride" :> PyInt(1)) @@ ("padding" :> PyInt(0)) @@ ("dilation" :> PyInt(1))

\* a 2x2 convolution of two filters
ConvOfTwo(extra) ==
    ConvLeaf("conv2d", ("kernel_size" :> PyInt(2)) @@ ("out_channels" :> PyInt(2)) @@ extra)

FromMarkers == ("number_of_kernels_per_marker" :> PyInt(1)) @@ Unit
Padded == ("number_of_kernels_per_marker" :> PyInt(1)) @@ ("stride" :> PyInt(1))
             @@ ("padding" :> PyList(<<1, 0>>)) @@ ("dilation" :> PyInt(1))

PoolLeaf(stride) ==
    [operation |-> "max_pool2d",
     params |-> ("kernel_size" :> PyInt(2)) @@ ("stride" :> PyInt(stride))]

\* normalisation leaves: marker-based with a 3x3 or 1x1 window or no params, and
\* batch-statistics
NormLeaves ==
    {[operation |-> op, params |-> params] :
        op \in {"m_norm2d", "marker_based_norm"},
        params \in {("kernel_size" :> PyInt(3)) @@ ("dilation" :> PyInt(1)),
                    "kernel_size" :> PyInt(3), EmptyDict}}
    \cup {[operation |-> "batch_norm2d", params |-> EmptyDict]}

\* linear leaves: in_features given, to be derived (-1), missing
LinearLeaves ==
    {[operation |-> "linear", params |-> params] :
        params \in {("in_features" :> PyInt(-1)) @@ ("out_features" :> PyInt(2)),
                    ("in_features" :> PyInt(4)) @@ ("out_features" :> PyInt(2)),
                    "in_features" :> PyInt(4), EmptyDict}}

BuildModules ==
    LET relu_ab(inputs) == <<Entry("a", ReluLeaf), Entry("b", WithInputs(ReluLeaf, inputs))>>
        sub(type, inputs) ==
            WithInputs(ModuleCfg(type, <<Entry("x", ReluLeaf),
                                         Entry("y", WithInputs(ReluLeaf, <<"m.a">>))>>),
                       inputs)
    IN {ModuleCfg("sequential", relu_ab(inputs)) :
           inputs \in {<<"input">>, <<"m.a">>, <<"m.a", "input">>, <<"input", "m.a">>,
                       <<"m.z">>, <<"m.b">>}}
       \cup
       {ModuleCfg("sequential", <<Entry("a", ReluLeaf), Entry("s", sub(type, inputs))>>) :
           type \in {"sequential", "parallel"}, inputs \in {<<"input">>, <<"m.a", "input">>}}
       \cup
       {ModuleCfg("sequential", <<Entry("a", ReluLeaf),
                                  Entry("s", ModuleCfg("sequential", <<Entry("x", ReluLeaf)>>)),
                                  Entry("c", WithInputs(ReluLeaf, <<"m.s", "m.s.x">>))>>)}
       \cup
       {ModuleCfg("sequential", <<Entry("a", first), Entry("b", WithInputs(second, inputs))>>) :
           first \in {ReluLeaf, ConvOfTwo(FromMarkers), ConvOfTwo(Padded), PoolLeaf(1)},
           second \in {ConvOfTwo(FromMarkers), ConvOfTwo(EmptyDict), PoolLeaf(2)},
           inputs \in {<<"input">>, <<"m.a">>, <<"m.a", "input">>}}
       \cup
       \* parallel modules, at the top level and nested, with no skip edge
       {ModuleCfg("parallel", <<Entry("x", first), Entry("y", second)>>) :
           first \in {ReluLeaf, ConvLeaf("conv2d", ("kernel_size" :> PyInt(2))
                                                   @@ ("out_channels" :> PyInt(3)) @@ Unit)},
           second \in {ReluLeaf, ConvOfTwo(Unit)}}
       \cup
       {ModuleCfg("sequential",
                  <<Entry("p", ModuleCfg("parallel",
                                         <<Entry("x", ModuleCfg("sequential", <<Entry("r", ReluLeaf)>>)),
                                           Entry("y", ModuleCfg("sequential", <<Entry("r", ReluLeaf)>>))>>))>>)}
       \cup
       {[layers |-> <<Entry("a", leaf)>>] :
           leaf \in {ReluLeaf, [operation |-> "dropout", params |-> EmptyDict],
                     [params |-> EmptyDict], [operation |-> "relu"],
                     [operation |-> "adap_avg_pool2d", params |-> EmptyDict]}
                    \cup NormLeaves \cup LinearLeaves}
       \cup
       \* a linear leaf behind a sub-module
       {ModuleCfg("sequential", <<Entry("s", ModuleCfg("sequential", <<Entry("x", ReluLeaf)>>)),
                                  Entry("fc", leaf)>>) : leaf \in LinearLeaves}

\* a second top-level module that takes an output of the first
SecondModules ==
    {ModuleCfg("sequential", <<Entry("a", WithInputs(ReluLeaf, inputs))>>) :
        inputs \in {<<"m.a">>, <<"m.b", "input">>}}

\* what load_model builds: architecture['features']
FeatureModules ==
    {ModuleCfg("sequential", <<Entry("conv1", conv), Entry("act", ReluLeaf)>>) :
        conv \in {ConvOfTwo(EmptyDict), ConvOfTwo(Unit),
                  ConvLeaf("conv2d", "kernel_size" :> PyInt(2)),
                  WithInputs(ConvOfTwo(Unit), <<"input">>)}}
    \cup {ModuleCfg("sequential", <<Entry("conv1", ConvOfTwo(Unit)), Entry("pool", PoolLeaf(2))>>)}
    \cup {ModuleCfg("sequential", <<Entry("fc", leaf)>>) : leaf \in LinearLeaves}

BuildArchitectures ==
    {<<Entry("m", m)>> : m \in BuildModules}
    \cup {<<Entry("m", ModuleCfg("sequential", <<Entry("a", ReluLeaf),
                                                Entry("b", WithInputs(ReluLeaf, <<"m.a">>))>>)),
            Entry("n", n)>> : n \in SecondModules}
    \cup {<<Entry("features", f)>> : f \in FeatureModules}
    \cup {<<Entry("features", ModuleCfg("sequential", <<Entry("a", ReluLeaf)>>)),
            Entry("classifier", ModuleCfg("sequential", <<Entry("fc", leaf)>>))>> :
             leaf \in LinearLeaves}

\* the data handed to the constructor: <<images, markers, input_shape>>
BuildData ==
    {<<Batch(1, <<3, 3>>, InputChannels(2)), PyList(<<MarkedPrefix(2, 1, 2)>>), None>>,
     <<Batch(2, <<3, 3>>, InputChannels(1)), PyList(<<MarkedPrefix(2, 1, 1), EmptyMap>>), None>>,
     <<Batch(1, <<3, 3>>, InputChannels(2)), None, None>>,
     <<None, None, PyList(<<3, 3, 2>>)>>}

SavedWeights ==
    {None, StateDict("feature_extractor.conv1.weight", <<4, 2, 2, 2>>),
     StateDict("feature_extractor.conv0.weight", <<4, 2, 2, 2>>),
     StateDict("classifier.fc._linear.weight", <<3, 6>>)}

BuildCalls ==
    {[method |-> "build_model", images |-> data[1], markers |-> data[2],
      input_shape |-> data[3], remove_border |-> border, remove_similar_filters |-> FALSE,
      similarity_level |-> 20, state_dict |-> None,
      relabel_markers |-> FALSE, superpixels_markers |-> None] :
        data \in BuildData, border \in {0, 1}}
    \cup
    {[method |-> "load_model", images |-> data[1], markers |-> data[2],
      input_shape |-> data[3], remove_border |-> border, remove_similar_filters |-> FALSE,
      similarity_level |-> 20, state_dict |-> saved,
      relabel_markers |-> FALSE, superpixels_markers |-> None] :
        data \in BuildData, border \in {0, 1}, saved \in SavedWeights}

\* one sequential module of one conv2d leaf with out_channels 4, kernel_size 3 and two
\* kernels per marker, as the params give the geometry or leave it to the defaults
EndToEndArchitectures ==
    {<<Entry("m", ModuleCfg("sequential", <<Entry("conv1",
          ConvLeaf("conv2d", ("kernel_size" :> PyInt(3)) @@ ("out_channels" :> PyInt(4))
                             @@ ("number_of_kernels_per_marker" :> PyInt(2)) @@ geometry))>>))>> :
        geometry \in {EmptyDict,
                      ("stride" :> PyInt(1)) @@ ("padding" :> PyInt(1)) @@ ("dilation" :> PyInt(1))}}

\* an 8x8 marker map with two pixels of label 1 and two of label 2
EndToEndMap ==
    MarkedAt(<<8, 8>>, (<<1, 1>> :> 1) @@ (<<2, 5>> :> 1) @@ (<<4, 3>> :> 2) @@ (<<6, 6>> :> 2))

\* two images of shape 8x8x1 whose markers give four marked pixels to each of two labels
EndToEndCalls ==
    {[method |-> "build_model", images |-> Batch(2, <<8, 8>>, InputChannels(1)),
      markers |-> PyList(<<EndToEndMap, EndToEndMap>>), input_shape |-> None,
      remove_border |-> 0, remove_similar_filters |-> FALSE, similarity_level |-> 20,
      state_dict |-> None, relabel_markers |-> FALSE, superpixels_markers |-> None]}

\* one or two top-level modules, each of one convolution synthesised from the markers
MarkerArchitectures ==
    LET conv == ModuleCfg("sequential", <<Entry("a", ConvOfTwo(FromMarkers))>>)
    IN {<<Entry("m", conv)>>, <<Entry("m", conv), Entry("n", conv)>>}

\* a superpixel map with one seed
SuperpixelMap == MarkedAt(<<3, 3>>, <<2, 2>> :> 1)

\* creators given superpixel markers, or asked to relabel the markers
MarkerCalls ==
    {[method |-> "build_model", images |-> Batch(1, <<3, 3>>, InputChannels(2)),
      markers |-> markers, input_shape |-> None,
      remove_border |-> 0, remove_similar_filters |-> FALSE, similarity_level |-> 20,
      state_dict |-> None, relabel_markers |-> relabel, superpixels_markers |-> superpixels] :
        markers \in {None, PyList(<<MarkedPrefix(2, 1, 2)>>), PyList(<<MarkedPrefix(2, 2, 2)>>)},
        relabel \in BOOLEAN, superpixels \in {None, SuperpixelMap}}

\* the creators the walk is run on, as <<architecture, call>>
BuildCreators ==
    (BuildArchitectures \X BuildCalls) \cup (EndToEndArchitectures \X EndToEndCalls)
    \cup (MarkerArchitectures \X MarkerCalls)

\* LCNCreator.__init__ (lines 115-148) has run
InitBuild ==
    /\ pc = "constructed"
    /\ \E creator \in BuildCreators :
          /\ architecture = creator[1]
          \* the call, with the ArchitectureSpec as it was supplied
          /\ call = creator[2] @@ [supplied |-> creator[1]]
    /\ skips = _find_skip_connections(architecture)
    /\ to_save_outputs = _find_outputs_to_save(skips)
    /\ _outputs = EmptyDict
    /\ _input_shape = IF IsNone(call.images)
                      THEN [kind |-> "ndarray", list |-> call.input_shape.list]
                      ELSE [kind |-> "list", list |-> ImageShape(call.images)]
    /\ _output_shape = None
    /\ LCN = <<>>
    /\ stack = <<>>
    /\ ret = None

NextBuild ==
    \/ BuildModel
    \/ BuildTopModule
    \/ FinishBuild
    \/ LoadModel
    \/ BuildLayer
    \/ EnterSubModule
    \/ ReturnModule

SpecBuild == InitBuild /\ [][NextBuild]_vars

(***************************************************************************)
(* Claims about the module walk                                            *)
(***************************************************************************)
\* the walk is about to take an entry, leaf or sub-module, that is a recorded skip edge
AtSkipEdge ==
    /\ pc \in Running
    /\ Len(stack) > 0
    /\ IsModuleFrame(Top)
    /\ AtEntry(Top)
    /\ QualifiedName(Top.module_name, LayersOf(Top)[Top.i].key) \in DOMAIN skips

RECURSIVE ChannelsUpTo(_, _)
\* the channels of the first k batches of `batches`, counted
ChannelsUpTo(batches, k) ==
    IF k = 0 THEN 0 ELSE ChannelsUpTo(batches, k - 1) + Len(batches[k].channels)

\* C9: when the qualified name of the entry the walk takes is a recorded skip edge, the
\* batch fed to it holds the channels of the current batch (C1 of them) followed by the
\* channels of each named cached output in the order the names are declared (C2, C3,
\* ...), C1+C2+C3+... channels in all; the tracked channel count is that sum before the
\* layer is built, so that a convolution built for the entry takes that many channels.
C9_SkipConcatenation ==
    [][(AtSkipEdge /\ pc' # "failed") =>
          LET name == QualifiedName(Top.module_name, LayersOf(Top)[Top.i].key)
              current == Top.images
              cached == [k \in DOMAIN skips[name] |-> _outputs[skips[name][k]]]
              after == stack'[Len(stack')]
              fed == after.fed
              total == Len(current.channels) + ChannelsUpTo(cached, Len(cached))
          IN /\ fed.name = name
             /\ Len(fed.images.channels) = total
             /\ \A j \in DOMAIN current.channels : fed.images.channels[j] = current.channels[j]
             /\ \A k \in DOMAIN cached : \A j \in DOMAIN cached[k].channels :
                   fed.images.channels[Len(current.channels) + ChannelsUpTo(cached, k - 1) + j]
                       = cached[k].channels[j]
             /\ fed.tracked = total
             /\ (Len(stack') = Len(stack)
                   /\ "in_channels" \in DOMAIN after.module[Len(after.module)].layer)
                   => after.module[Len(after.module)].layer.in_channels = total
      ]_vars

\* a convolution was built for an entry fed the current batch and two cached outputs of
\* different layers, six channels in all
C9_Witness ==
    /\ pc \in Running
    /\ Len(stack) > 0
    /\ IsModuleFrame(Top)
    /\ Top.fed.name \in DOMAIN skips
    /\ Len(skips[Top.fed.name]) = 2
    /\ skips[Top.fed.name][1] # skips[Top.fed.name][2]
    /\ Len(Top.fed.images.channels) = 6
    /\ Top.fed.tracked = 6
    /\ Len(Top.module) > 0
    /\ "in_channels" \in DOMAIN Top.module[Len(Top.module)].layer
    /\ Top.module[Len(Top.module)].layer.in_channels = 6

RECURSIVE LeavesOf(_)
\* the leaves of a module configuration, at any depth, as [key, cfg]
LeavesOf(module) ==
    UNION {IF IsLeaf(module.layers[i].cfg) THEN {module.layers[i]}
           ELSE LeavesOf(module.layers[i].cfg) : i \in DOMAIN module.layers}

IsConv(cfg) == "operation" \in DOMAIN cfg /\ cfg.operation \in ConvOperationNames

SavedName(key) == "feature_extractor." \o key \o ".weight"

\* load_model is called on a creator made without images and markers, whose features
\* are convolutions with a kernel size and an out_channels and plain operations, no skip
\* edge, with the saved weights of every convolution at hand
ResumeCall ==
    /\ call.method = "load_model"
    /\ IsNone(call.images) /\ IsNone(call.markers)
    /\ ~IsNone(call.state_dict)
    /\ skips = EmptyDict
    /\ \E t \in DOMAIN architecture :
          /\ architecture[t].key = "features"
          /\ \A leaf \in LeavesOf(architecture[t].cfg) :
                /\ {"operation", "params"} \subseteq DOMAIN leaf.cfg
                /\ \/ leaf.cfg.operation \in PlainOperationNames
                   \/ /\ IsConv(leaf.cfg)
                      /\ {"kernel_size", "out_channels"} \subseteq DOMAIN leaf.cfg.params
                      /\ SavedName(leaf.key) \in DOMAIN call.state_dict.dict

\* the convolutions the walk has built so far, as [name, layer]
ConvsBuilt ==
    UNION {{frame.module[j] : j \in {j \in DOMAIN frame.module :
                                        "in_channels" \in DOMAIN frame.module[j].layer}} :
              frame \in {stack[k] : k \in {k \in DOMAIN stack : IsModuleFrame(stack[k])}}}

\* C10 (as stated): the resume path, load_model on saved parameters with no images and no
\* markers, completes, and every convolution it builds has as many output channels as
\* the leading dimension of its saved weight.
C10_ResumeCompletes ==
    ResumeCall =>
        /\ pc # "failed"
        /\ \A conv \in ConvsBuilt :
              conv.layer.out_channels = call.state_dict.dict[SavedName(conv.name)].size[1]

\* the module has one entry, a conv2d leaf with out_channels 4 and kernel_size 3, built
\* with two clusters per label from two 8x8x1 images whose markers give two labels four
\* marked pixels each
EndToEndScenario ==
    /\ call.method = "build_model"
    /\ ~IsNone(call.images) /\ ~IsNone(call.markers)
    /\ call.images.n = 2 /\ ImageShape(call.images) = <<8, 8, 1>>
    /\ Len(architecture) = 1
    /\ Get(architecture[1].cfg, "type", "sequential") = "sequential"
    /\ Len(architecture[1].cfg.layers) = 1
    /\ LET leaf == architecture[1].cfg.layers[1].cfg
       IN /\ IsConv(leaf) /\ leaf.operation = "conv2d" /\ "params" \in DOMAIN leaf
          /\ Get(leaf.params, "out_channels", None) = PyInt(4)
          /\ Get(leaf.params, "kernel_size", None) = PyInt(3)
          /\ Get(leaf.params, "number_of_kernels_per_marker", None) = PyInt(2)
    /\ MarkerValues(call.markers.list) \ {0} = {1, 2}
    /\ \A value \in {1, 2} :
          Cardinality({<<i, x>> \in UNION {{<<j, y>> : y \in DOMAIN call.markers.list[j].val} :
                                              j \in DOMAIN call.markers.list} :
                          call.markers.list[i].val[x] = value}) >= 4

\* C11 (as stated): the end-to-end scenario completes, and the convolution it builds has
\* a weight of shape 4x1x3x3.
C11_EndToEndWeightShape ==
    (EndToEndScenario /\ pc \in {"built", "failed"}) =>
        /\ pc = "built"
        /\ Len(LCN) = 1
        /\ Len(LCN[1].module.children) = 1
        /\ Len(LCN[1].module.children[1].layer.weight) = 4
        /\ LCN[1].module.children[1].layer.weight_shape = <<1, 3, 3>>

\* the entries of the frame's module, at any depth, carry no inputs list
NoSkipInto(frame) ==
    CarryInputs(EntriesBelow(frame.module_name, ModuleAt(architecture, frame.path))) = {}

\* C12 (as stated): while a module of type parallel is built, every branch starts from
\* the state the module itself received: the batch and the channel count the call of
\* _build_module holds when it takes a branch are those it was entered with.
C12_ParallelBranchesShareInput ==
    \A k \in DOMAIN stack :
        (IsModuleFrame(stack[k]) /\ stack[k].module_type = "parallel" /\ NoSkipInto(stack[k])) =>
            /\ stack[k].images = stack[k].entered.images
            /\ stack[k].last_conv_layer_out_channels = stack[k].entered.last_conv_layer_out_channels

\* the names the entry the walk is about to take declares as inputs and the cache lacks
MissingInputs ==
    LET inputs_names == skips[QualifiedName(Top.module_name, LayersOf(Top)[Top.i].key)]
    IN {inputs_names[k] : k \in {k \in DOMAIN inputs_names : inputs_names[k] \notin DOMAIN _outputs}}

\* C13: when the entry the walk takes declares as input a name the cache does not hold
\* (never produced, or produced only later), the step raises a KeyError for a missing
\* name: the build is over with that error, and neither the model nor the cache has
\* received anything for the entry.
C13_MissingInputAborts ==
    [][(AtSkipEdge /\ MissingInputs # {}) =>
          /\ pc' = "failed"
          /\ \E name \in MissingInputs : ret'.error = "KeyError: " \o name
          /\ stack' = <<>>
          /\ LCN' = LCN
          /\ _outputs' = _outputs
      ]_vars

\* the build was over with a KeyError for an input declared before the layer that
\* produces it, with images and markers given
C13_Witness ==
    /\ pc = "failed"
    /\ ret.error = "KeyError: m.b"
    /\ "m.b" \in to_save_outputs
    /\ \E t \in DOMAIN architecture :
          \E i \in DOMAIN architecture[t].cfg.layers :
              architecture[t].key = "m" /\ architecture[t].cfg.layers[i].key = "b"
    /\ ~IsNone(call.images) /\ ~IsNone(call.markers)
    /\ LCN = <<>>

\* the walk is about to take a leaf entry
AtLeaf ==
    /\ pc \in Running
    /\ Len(stack) > 0
    /\ IsModuleFrame(Top)
    /\ AtEntry(Top)
    /\ IsLeaf(LayersOf(Top)[Top.i].cfg)

\* C14: when the walk reaches a leaf entry that has no operation key, or has one but no
\* params, the step raises: the build is over with an error (the AssertionError of
\* _assert_params unless gathering the leaf's skip inputs failed first), no layer is added
\* for the leaf and nothing is cached; the architecture is left without a default.
C14_IncompleteLeafFails ==
    [][(AtLeaf /\ ~({"operation", "params"} \subseteq DOMAIN LayersOf(Top)[Top.i].cfg)) =>
          /\ pc' = "failed"
          /\ stack' = <<>>
          /\ LCN' = LCN
          /\ _outputs' = _outputs
          /\ architecture' = architecture
          /\ ~AtSkipEdge =>
                ret'.error = IF "operation" \notin DOMAIN LayersOf(Top)[Top.i].cfg
                             THEN "AssertionError: Layer does not have an operation."
                             ELSE "AssertionError: Layer does not have operation params."
      ]_vars

\* a build was over at a leaf that names its operation but has no params
C14_Witness ==
    /\ pc = "failed"
    /\ ret.error = "AssertionError: Layer does not have operation params."
    /\ \E i \in DOMAIN architecture[1].cfg.layers :
          /\ "operation" \in DOMAIN architecture[1].cfg.layers[i].cfg
          /\ "params" \notin DOMAIN architecture[1].cfg.layers[i].cfg
    /\ LCN = <<>>

(***************************************************************************)
(* Further claims about the convolution branch                             *)
(***************************************************************************)
\* a convolution leaf given images and markers, its geometry and no out_channels, with
\* at least two marked pixels inside the image
MarkersAndNoOutChannels(c) ==
    /\ ~IsNone(c.images) /\ ~IsNone(c.markers)
    /\ "out_channels" \notin DOMAIN c.layer_config.params
    /\ {"kernel_size", "stride", "dilation"} \subseteq DOMAIN c.layer_config.params
    /\ ~UsesRandomKernels(c)
    /\ Cardinality(UNION {MarkedPixels(c, value) : value \in 1..MaxLabel}) >= 2

\* C15 (as stated): a convolution leaf built with images and markers and with no
\* out_channels in its params builds, and the layer's out_channels is the number of
\* cluster centres synthesis generated.
C15_OutChannelsFromCenters ==
    (pc = "conv_built" /\ MarkersAndNoOutChannels(call)) =>
        /\ ~Failed(ret)
        /\ ret.layer.out_channels = Len(ret.weights.kernels)

(***************************************************************************)
(* Claims about the output cache                                           *)
(***************************************************************************)
\* the qualified names of the leaves and sub-modules the architecture declares
DeclaredNames == {e.path : e \in NestedEntries(architecture)}

\* C16: at every point of a build, every key of the output cache is a name of
\* outputs_to_save, a name that appears in some inputs list; the output of a module or
\* leaf that no inputs list names is never stored.
C16_CacheHoldsOnlySkipSources ==
    /\ DOMAIN _outputs \subseteq to_save_outputs
    /\ \A name \in DeclaredNames \cup {"input"} :
          name \notin NamesIn(CarryInputs(NestedEntries(architecture))) => name \notin DOMAIN _outputs

\* a build with images and markers is over: the cache holds the input and the output of
\* a layer, and lacks the output of a layer that was built and that no inputs list names
C16_Witness ==
    /\ pc = "built"
    /\ ~IsNone(call.images) /\ ~IsNone(call.markers)
    /\ {"input", "m.a"} \subseteq DOMAIN _outputs
    /\ "m.b" \in DeclaredNames
    /\ "m.b" \notin DOMAIN _outputs

\* C17 (as stated): with images and markers, the entries of a module are taken in
\* declared order, and when a leaf whose qualified path is in outputs_to_save has been
\* built, whatever its operation, the cache holds the leaf's output under that path
\* before the next entry is taken.
C17_LeafOutputCachedAtOnce ==
    [][(/\ AtLeaf
        /\ ~IsNone(Top.images) /\ ~IsNone(Top.markers)
        /\ QualifiedName(Top.module_name, LayersOf(Top)[Top.i].key) \in to_save_outputs
        /\ pc' # "failed") =>
          LET name == QualifiedName(Top.module_name, LayersOf(Top)[Top.i].key)
              after == stack'[Len(stack')]
          IN /\ Len(stack') = Len(stack)
             /\ after.i = Top.i + 1
             /\ after.module[Len(after.module)].name = LayersOf(Top)[Top.i].key
             /\ name \in DOMAIN _outputs'
             /\ _outputs'[name] = after.images
      ]_vars

(***************************************************************************)
(* Further claims about patch extraction                                   *)
(***************************************************************************)
\* the marked positions of one marker map that lie inside the image, in row-major order
InsideImage(image_markers, image_shape) ==
    SelectSeq(NonZero(image_markers),
              LAMBDA c : \A a \in DOMAIN c : c[a] < image_shape[a])

RECURSIVE MarkedInside(_, _)
\* the marked pixels inside their image, as [image, marker], by image index and then in
\* row-major order, over the first i images
MarkedInside(c, i) ==
    IF i = 0 THEN <<>>
    ELSE LET inside == InsideImage(c.markers[i], c.images.shape)
         IN MarkedInside(c, i - 1)
            \o [k \in DOMAIN inside |-> [image |-> i - 1, marker |-> inside[k]]]

\* the call gives as many markers as images and asks for the channels the images have
WholeChannels(c) ==
    /\ Len(c.markers) = c.images.n
    /\ c.in_channels = Len(c.images.channels)

\* C18 (as stated): patch extraction returns one patch and one label per marked pixel
\* whose coordinates lie inside the image, and none for a marker outside it; patch k and
\* label k belong to the same pixel; the pixels come by image index and, within an image,
\* in row-major order of the non-zero markers; an image with no marked pixel gives none.
C18_OnePatchPerInsideMarker ==
    (pc = "patched" /\ ~Failed(ret) /\ WholeChannels(call)) =>
        LET expected == MarkedInside(call, call.images.n)
        IN /\ Len(ret.patches) = Len(expected)
           /\ Len(ret.labels) = Len(expected)
           /\ \A k \in DOMAIN expected :
                 /\ ret.patches[k].image = expected[k].image
                 /\ ret.patches[k].marker = expected[k].marker
                 /\ ret.labels[k] = call.markers[expected[k].image + 1].val[expected[k].marker] - 1

\* C19 (as stated): every patch has kernel_size samples along each spatial axis and
\* in_channels channels, and so has the array returned, for every kernel_size >= 1 and
\* in_channels >= 1, when a dilation >= 1 is given and when the leaf omits dilation (the
\* branch then passes its default, 0 on every axis).
C19_PatchShape ==
    (/\ pc = "patched" /\ ~Failed(ret) /\ WholeChannels(call)
     /\ \/ \A a \in DOMAIN call.dilation : call.dilation[a] >= 1
        \/ \A a \in DOMAIN call.dilation : call.dilation[a] = 0) =>
        /\ \A k \in DOMAIN ret.patches :
              /\ ret.patches[k].samples = call.kernel_size
              /\ ret.patches[k].channels = call.in_channels
        /\ ret.shape = <<Len(ret.patches)>> \o call.kernel_size \o <<call.in_channels>>

\* C20 (as stated): for images of three spatial axes, the patch gathered for a marked
\* voxel is the window of the padded volume centred on the voxel: it is taken at the
\* voxel's own three coordinates and starts half a dilated kernel before each.
C20_VoxelWindowCentred ==
    (pc = "patched" /\ ~Failed(ret) /\ Len(call.kernel_size) = 3) =>
        \A k \in DOMAIN ret.patches :
            /\ ret.patches[k].at = ret.patches[k].marker
            /\ \A a \in 1..3 :
                  ret.patches[k].first[a] =
                      ret.patches[k].marker[a]
                      - ((call.kernel_size[a] + (call.dilation[a] - 1) * (call.kernel_size[a] - 1)) \div 2)

(***************************************************************************)
(* Claims about the kernels per marker and about pruning                   *)
(***************************************************************************)
\* the leaf gives out_channels and leaves the kernels per marker to the branch, which
\* has markers with a label in them
KernelsPerMarkerLeftOut(c) ==
    /\ ~IsNone(c.markers)
    /\ {"kernel_size", "out_channels"} \subseteq DOMAIN c.layer_config.params
    /\ "number_of_kernels_per_marker" \notin DOMAIN c.layer_config.params
    /\ MarkerValues(c.markers.list) \ {0} # {}

\* C21 (as stated): when the leaf does not give number_of_kernels_per_marker, the branch
\* goes on with ceil(out_channels / number of distinct marker labels present), whatever
\* the labels are.
C21_KernelsPerDistinctLabel ==
    (pc = "conv_built" /\ KernelsPerMarkerLeftOut(call)) =>
        KernelsPerMarkerOf(call.layer_config.params, call.markers)
            = PyInt(CeilDiv(call.layer_config.params.out_channels.int,
                            Cardinality(MarkerValues(call.markers.list) \ {0})))

RECURSIVE GreedySurvivors(_, _, _)
\* the kernels among the first i that no earlier survivor is as similar to as the level
GreedySurvivors(filters, similarity_level, i) ==
    IF i = 0 THEN {}
    ELSE LET earlier == GreedySurvivors(filters, similarity_level, i - 1)
         IN IF \E j \in earlier : Inner(filters[i], filters[j]) >= similarity_level
            THEN earlier
            ELSE earlier \cup {i}

\* the k-th smallest index of a set of indices
KthOf(indices, k) == CHOOSE i \in indices : Cardinality({j \in indices : j < i}) = k - 1

\* a layer was pruned and a new layer came back
Pruned == pc = "pruned" /\ ~Failed(ret.first)

\* C22: pruning keeps the greedy set: kernel i survives iff no surviving kernel j < i has
\* inner product >= the level with it; the survivors keep their order and the rebuilt
\* layer's out_channels is their number.
C22_GreedySurvivorsKept ==
    Pruned =>
        LET filters == call.layer.weight
            survivors == GreedySurvivors(filters, call.similarity_level, Len(filters))
        IN /\ Len(ret.first.weight) = Cardinality(survivors)
           /\ \A k \in DOMAIN ret.first.weight :
                 ret.first.weight[k] = filters[KthOf(survivors, k)]
           /\ ret.first.out_channels = Cardinality(survivors)

\* at 0.8 the second kernel went, and the third stayed: it is that similar to the second
\* only, which did not survive
C22_Witness ==
    /\ Pruned
    /\ call.similarity_level = 20
    /\ call.layer.weight = <<[vec |-> <<5, 0>>], [vec |-> <<4, 3>>], [vec |-> <<3, 4>>]>>
    /\ ret.first.weight = <<[vec |-> <<5, 0>>], [vec |-> <<3, 4>>]>>

\* C29: pruning a layer of at least one kernel at a level in (0, 1] keeps kernel 0, so
\* the new layer has a filter; a level outside (0, 1] is an error and no layer comes back.
C29_FirstKernelKept ==
    pc = "pruned" =>
        IF 0 < call.similarity_level /\ call.similarity_level <= UnitInner
        THEN ~Failed(ret.first) =>
                /\ Len(ret.first.weight) >= 1
                /\ ret.first.out_channels >= 1
                /\ ret.first.weight[1] = call.layer.weight[1]
        ELSE /\ Failed(ret.first)
             /\ ret.first.error = "AssertionError: Similarity must be in range (0, 1]"

\* at 0.2 the first of three kernels suppressed the other two
C29_Witness ==
    /\ Pruned
    /\ call.similarity_level = 5
    /\ Len(call.layer.weight) = 3
    /\ ret.first.weight = <<call.layer.weight[1]>>

\* C30 (as stated): the rebuilt layer has the dimensionality, in_channels, kernel_size,
\* stride, padding, padding_mode, dilation, groups and bias setting of the layer it
\* replaces, and the surviving kernels' weights, whenever a layer with a kernel is pruned
\* at a level in (0, 1].
C30_OnlyKernelsChange ==
    (pc = "pruned" /\ SimilarityInRange(call.similarity_level)) =>
        /\ ~Failed(ret.first)
        /\ \A field \in {"operation", "in_channels", "kernel_size", "stride", "padding",
                         "padding_mode", "dilation", "groups", "bias", "weight_shape"} :
              ret.first[field] = call.layer[field]
        /\ \A k \in DOMAIN ret.first.weight :
              \E i \in DOMAIN call.layer.weight : ret.first.weight[k] = call.layer.weight[i]

(***************************************************************************)
(* Claims about the replay of pooling and normalisation leaves             *)
(***************************************************************************)
\* a pooling leaf was built with images and markers, so the batch was replayed
PoolReplayed == pc = "pool_built" /\ ~IsNone(call.images) /\ ~IsNone(call.markers)

\* C23 (as stated): the same-size replay of a pooling leaf leaves the image batch with
\* the shape it had: same batch size, same size on every spatial axis, same channel
\* count, whatever the kernel size and the number of channels.
C23_ReplayKeepsShape ==
    PoolReplayed =>
        /\ ret.images.n = call.images.n
        /\ ret.images.shape = call.images.shape
        /\ Len(ret.images.channels) = Len(call.images.channels)

\* the layers in the modules under construction and in the top-level modules attached
\* to the network
AttachedLayers ==
    UNION ({{child.layer : child \in Range(stack[k].module)} :
               k \in {j \in DOMAIN stack : IsModuleFrame(stack[j])}}
           \cup {{child.layer : child \in Range(LCN[t].module.children)} : t \in DOMAIN LCN})

\* those whose mode is tracked
ModeTracked == {layer \in AttachedLayers : "training" \in DOMAIN layer}

\* C24 (as stated): a batch-statistics normalisation layer is in training mode only while
\* the batch is passed through it for calibration; once its leaf is built, and when the
\* build returns, it is in evaluation mode.
C24_BatchNormInEvaluation ==
    \A layer \in ModeTracked : ~layer.training

\* C25 (as stated): a marker-based normalisation leaf (m_norm2d, m_norm3d,
\* marker_based_norm) reached with no images or no markers is built: the step does not
\* fail and adds a layer whose mean and std are unset.
C25_NormWithoutData ==
    [][(/\ AtLeaf
        /\ {"operation", "params"} \subseteq DOMAIN LayersOf(Top)[Top.i].cfg
        /\ LayersOf(Top)[Top.i].cfg.operation \in NormOperationNames
        /\ ~AtSkipEdge
        /\ IsNone(Top.images) \/ IsNone(Top.markers)) =>
          /\ pc' # "failed"
          /\ LET after == stack'[Len(stack')]
             IN /\ after.module[Len(after.module)].name = LayersOf(Top)[Top.i].key
                /\ after.module[Len(after.module)].layer.mean = None
                /\ after.module[Len(after.module)].layer.std = None
      ]_vars

\* C26 (as stated): when build_model has returned, the architecture is as it was
\* supplied: every leaf's params have the keys and the values they had.
C26_ArchitectureUnchanged ==
    pc = "built" => architecture = call.supplied

\* the markers of the constructor, relabelled once and with the superpixel markers
\* added once, as the creator is set to
TransformedOnce ==
    LET relabeled == IF call.relabel_markers /\ ~IsNone(call.markers)
                     THEN label_connected_components(call.markers,
                                                     IF HasSuperpixelMarkers THEN 2 ELSE 1)
                     ELSE call.markers
    IN IF HasSuperpixelMarkers /\ ~IsNone(relabeled) THEN SuperpixelsAdded(relabeled)
       ELSE relabeled

\* C27 (as stated): in one build_model the markers are relabelled once and the superpixel
\* markers added once, however many top-level modules there are: every module is built
\* from the same markers.
C27_MarkersTransformedOnce ==
    pc = "build_model" =>
        \A t \in DOMAIN stack[1].passed : stack[1].passed[t] = TransformedOnce

\* C28 (as stated): when building a module fails, build_model raises and the network of
\* the creator holds no module of that build.
C28_FailedBuildAttachesNothing ==
    (pc = "failed" /\ call.method = "build_model") => LCN = <<>>

====
